---- MODULE Spec2Model ----
(***************************************************************************)
(* Authentication and authorization core of the karinja back-end:          *)
(* token codec (utilities/authentication.py), DPoP proof validation,       *)
(* get_current_user and require_roles (dependencies.py), and the login /   *)
(* refresh-token handlers (routers/authentication.py).                     *)
(*                                                                         *)
(* Time is the integer Unix second the handlers read with                  *)
(* int(datetime.now(timezone.utc).timestamp()).  Strings the code walks    *)
(* over (HTTP methods, URL paths) are sequences of one-character strings.  *)
(* JSON claim values are tagged: [t |-> "str", v |-> chars] or             *)
(* [t |-> "num", v |-> n].  A dict is a function whose domain is the set   *)
(* of keys it holds.                                                       *)
(***************************************************************************)
EXTENDS Integers, Sequences, FiniteSets, TLC

VARIABLES now, users, tables, writes, issued, mints, ticks, req, resp

vars == <<now, users, tables, writes, issued, mints, ticks, req, resp>>

(***************************************************************************)
(* Bounds of the model.                                                    *)
(***************************************************************************)
StartTime == 1000000
MaxTicks == 2
MaxMints == 3
\* the first id that no row has at the start
FirstFreeId == 7

(***************************************************************************)
(* Program constants.                                                      *)
(***************************************************************************)
ACCESS_TOKEN_EXPIRE_MINUTES == 15
REFRESH_TOKEN_EXPIRE_MINUTES == 10080
max_skew == 300
SECRET_KEY == "P2_SECURITY_KEY"
ALGORITHM == "HS512"

None == "None"

(***************************************************************************)
(* Python helpers: dict.get, truthiness of a string, str.upper,            *)
(* str.endswith, int() of a JSON value.                                    *)
(***************************************************************************)
Get(d, k) == IF k \in DOMAIN d THEN d[k] ELSE None

TruthyStr(s) == s # None /\ s # ""

Lowers == <<"a","b","c","d","e","f","g","h","i","j","k","l","m",
            "n","o","p","q","r","s","t","u","v","w","x","y","z">>
Uppers == <<"A","B","C","D","E","F","G","H","I","J","K","L","M",
            "N","O","P","Q","R","S","T","U","V","W","X","Y","Z">>

UpperChar(c) ==
    IF \E i \in DOMAIN Lowers : Lowers[i] = c
    THEN Uppers[CHOOSE i \in DOMAIN Lowers : Lowers[i] = c]
    ELSE c

Upper(s) == [i \in DOMAIN s |-> UpperChar(s[i])]

EndsWith(s, suffix) ==
    /\ Len(suffix) <= Len(s)
    /\ SubSeq(s, Len(s) - Len(suffix) + 1, Len(s)) = suffix

Digits == <<"0","1","2","3","4","5","6","7","8","9">>

IsDigit(c) == \E i \in DOMAIN Digits : Digits[i] = c

DigitVal(c) == (CHOOSE i \in DOMAIN Digits : Digits[i] = c) - 1

RECURSIVE ParseDigits(_)
ParseDigits(s) ==
    IF Len(s) = 0 THEN 0
    ELSE 10 * ParseDigits(SubSeq(s, 1, Len(s) - 1)) + DigitVal(s[Len(s)])

\* a JSON claim value: a string of characters or a number
StrVal(chars) == [t |-> "str", v |-> chars]
NumVal(n) == [t |-> "num", v |-> n]

\* truthiness of a JSON claim value: "" and 0 are falsy
TruthyVal(x) == IF x.t = "str" THEN Len(x.v) > 0 ELSE x.v # 0

\* int(iat), then int(float(iat)): a number converts, a string converts
\* when it is all digits, anything else raises
IntOf(x) ==
    IF x.t = "num" THEN [ok |-> TRUE, n |-> x.v]
    ELSE IF Len(x.v) > 0 /\ \A i \in DOMAIN x.v : IsDigit(x.v[i])
         THEN [ok |-> TRUE, n |-> ParseDigits(x.v)]
         ELSE [ok |-> FALSE, n |-> 0]

Abs(n) == IF n < 0 THEN 0 - n ELSE n

(***************************************************************************)
(* HTTP responses.  An HTTPException(status, detail) carries no body; an   *)
(* exception no handler catches becomes a 500.                             *)
(***************************************************************************)
NoBody == <<>>

HTTPException(status, detail) ==
    [status |-> status, detail |-> detail, body |-> NoBody]

Ok(body) == [status |-> 200, detail |-> "", body |-> body]

InternalServerError == HTTPException(500, "Internal Server Error")

(***************************************************************************)
(* TokenCodec: create_access_token / decode_access_token.                  *)
(* A token string is the claim set, the key that signed it, the algorithm  *)
(* named in its header, and whether it parses as a compact JWT at all.     *)
(***************************************************************************)
JwtEncode(payload, key, alg) ==
    [wf |-> TRUE, alg |-> alg, key |-> key, payload |-> payload]

\* data.copy(), then update({"exp": int((now + timedelta(minutes)).timestamp())}).
\* Every call in the repository passes expires_delta as an int of minutes.
create_access_token(data, expires_delta, t) ==
    LET to_encode == [k \in DOMAIN data \cup {"exp"} |->
                        IF k = "exp" THEN t + expires_delta * 60 ELSE data[k]]
    IN  JwtEncode(to_encode, SECRET_KEY, ALGORITHM)

\* a decoder that never compares exp with the clock
decode_ignoring_exp(token, verify_exp, t) ==
    IF ~token.wf
    THEN HTTPException(401, "token_format_invalid")
    ELSE IF token.alg # ALGORITHM
    THEN HTTPException(401, "token_algorithm_unsupported")
    ELSE IF token.key # SECRET_KEY
    THEN HTTPException(401, "token_signature_invalid")
    ELSE Ok(token.payload)

\* jwt.decode: the compact form must parse, the header's algorithm must be
\* the allowed one, the signature must verify under SECRET_KEY, and only
\* then is exp compared with the clock (expired when exp <= now)
decode_access_token(token, verify_exp, t) ==
    IF ~token.wf
    THEN HTTPException(401, "token_format_invalid")
    ELSE IF token.alg # ALGORITHM
    THEN HTTPException(401, "token_algorithm_unsupported")
    ELSE IF token.key # SECRET_KEY
    THEN HTTPException(401, "token_signature_invalid")
    ELSE IF verify_exp /\ "exp" \in DOMAIN token.payload
                       /\ token.payload["exp"] <= t
    THEN HTTPException(401, "token_expired")
    ELSE Ok(token.payload)

(***************************************************************************)
(* JWK values a client can put in X-Client-JWK and the server copies into  *)
(* cnf.jwk: two well-formed public keys, a non-empty JSON value that is no *)
(* key, and the empty JSON object (falsy in Python).                       *)
(***************************************************************************)
JwkKeys == {"k1", "k2"}
JsonValues == JwkKeys \cup {"junk", "{}"}

TruthyJson(v) == v # "{}"

\* jwk.JWK.from_json(dumps(cnf_jwk)) raises unless the value is a JWK
JWK_from_json(v) == [ok |-> v \in JwkKeys, key |-> v]

\* a DPoP proof: a compact JWT signed with the private half of `signer`
Proof(signer, claims) == [wf |-> TRUE, signer |-> signer, claims |-> claims]
GarbledProof == [wf |-> FALSE, signer |-> "none", claims |-> <<>>]

\* jwcrypto.jwt.JWT(jwt=dpop, key=jwk_obj): parses and verifies the signature
JWT_verify(dpop, key) ==
    IF dpop.wf /\ dpop.signer = key
    THEN [ok |-> TRUE, claims |-> dpop.claims]
    ELSE [ok |-> FALSE, claims |-> <<>>]

HasClaim(claims, k) == k \in DOMAIN claims /\ TruthyVal(claims[k])

\* a header that is absent, or present with a value
NoHeader == [present |-> FALSE]
Header(v) == [present |-> TRUE, value |-> v]

(***************************************************************************)
(* dependencies.py: _validate_dpop_proof.                                  *)
(* htm.upper() and htu.endswith() stand outside every try block, so a      *)
(* truthy htm or htu that is not a string raises AttributeError, which no  *)
(* handler catches.                                                        *)
(***************************************************************************)
\* a window that shuts one second early on both sides
DpopIatCheckStrict(iat, t) ==
    LET iat_ts == IntOf(iat)
    IN  IF ~iat_ts.ok
        THEN HTTPException(401, "dpop_iat_invalid")
        ELSE IF Abs(t - iat_ts.n) >= max_skew
        THEN HTTPException(401, "dpop_stale_or_skewed")
        ELSE Ok(NoBody)

DpopIatCheck(iat, t) ==
    LET iat_ts == IntOf(iat)
    IN  IF ~iat_ts.ok
        THEN HTTPException(401, "dpop_iat_invalid")
        ELSE IF Abs(t - iat_ts.n) > max_skew
        THEN HTTPException(401, "dpop_stale_or_skewed")
        ELSE Ok(NoBody)

DpopPathCheck(htu, req_path) ==
    IF htu.t # "str"
    THEN InternalServerError
    ELSE IF ~EndsWith(htu.v, req_path)
    THEN HTTPException(401, "dpop_path_mismatch")
    ELSE Ok(NoBody)

\* a method comparison that minds letter case
DpopMethodCheckExact(htm, method) ==
    IF htm.t # "str"
    THEN InternalServerError
    ELSE IF htm.v # method
    THEN HTTPException(401, "dpop_method_mismatch")
    ELSE Ok(NoBody)

DpopMethodCheck(htm, method) ==
    IF htm.t # "str"
    THEN InternalServerError
    ELSE IF Upper(htm.v) # Upper(method)
    THEN HTTPException(401, "dpop_method_mismatch")
    ELSE Ok(NoBody)

DpopClaimsPresent(c) ==
    HasClaim(c, "htm") /\ HasClaim(c, "htu") /\ HasClaim(c, "iat") /\ HasClaim(c, "jti")

validate_dpop_proof(request, cnf_jwk, t) ==
    IF ~request.DPoP.present
    THEN HTTPException(401, "dpop_required")
    ELSE
    LET jwk_obj == JWK_from_json(cnf_jwk)
        dpop_jwt == JWT_verify(request.DPoP.value, jwk_obj.key)
        c == dpop_jwt.claims
    IN  IF ~jwk_obj.ok
        THEN HTTPException(401, "client_key_invalid")
        ELSE IF ~dpop_jwt.ok
        THEN HTTPException(401, "dpop_signature_or_format_invalid")
        ELSE IF ~DpopClaimsPresent(c)
        THEN HTTPException(401, "dpop_incomplete")
        ELSE IF DpopMethodCheck(c["htm"], request.method).status # 200
        THEN DpopMethodCheck(c["htm"], request.method)
        ELSE IF DpopPathCheck(c["htu"], request.path).status # 200
        THEN DpopPathCheck(c["htu"], request.path)
        ELSE DpopIatCheck(c["iat"], t)

(***************************************************************************)
(* The Authorization header as the handlers read it.                       *)
(*   kind "scheme_only": the value "Bearer"                                *)
(*   kind "bearer":      "Bearer <token>"                                  *)
(*   kind "lower":       "bearer <token>"                                  *)
(*   kind "bare":        "<token>"                                         *)
(***************************************************************************)
Garbled(token) == [token EXCEPT !.wf = FALSE]

\* auth_header.removeprefix("Bearer").strip(): the prefix is case-sensitive,
\* and what is left of "bearer <token>" is no compact JWT
BearerToken(h) ==
    IF h.value.kind = "scheme_only" THEN [empty |-> TRUE]
    ELSE IF h.value.kind = "lower"
    THEN [empty |-> FALSE, token |-> Garbled(h.value.token)]
    ELSE [empty |-> FALSE, token |-> h.value.token]

\* a dict is truthy when it has a key
TruthyDict(d) == DOMAIN d # {}

HasCnf(payload) == "cnf" \in DOMAIN payload /\ TruthyDict(payload["cnf"])

(***************************************************************************)
(* dependencies.py: get_current_user.                                      *)
(***************************************************************************)
Principal(payload, user_id, role) ==
    [k \in {"id", "role"} \cup (DOMAIN payload \ {"id", "sub", "role"}) |->
        IF k = "id" THEN user_id
        ELSE IF k = "role" THEN role
        ELSE payload[k]]

\* the token-type test of refresh_token put in the place of the access-only one
TokenTypeCheckEither(payload) ==
    IF Get(payload, "token_type") \notin {"access", "refresh"}
    THEN HTTPException(401, "not_an_access_token")
    ELSE Ok(NoBody)

TokenTypeCheck(payload) ==
    IF Get(payload, "token_type") # "access"
    THEN HTTPException(401, "not_an_access_token")
    ELSE Ok(NoBody)

\* a subject taken from the id claim alone
UserIdOfIdClaim(payload) == Get(payload, "id")

UserIdOf(payload) ==
    IF TruthyStr(Get(payload, "sub")) THEN payload["sub"] ELSE Get(payload, "id")

CnfCheck(request, payload, t) ==
    IF ~HasCnf(payload)
    THEN Ok(NoBody)
    ELSE IF ~("jwk" \in DOMAIN payload["cnf"] /\ TruthyJson(payload["cnf"]["jwk"]))
    THEN HTTPException(401, "token_cnf_invalid")
    ELSE validate_dpop_proof(request, payload["cnf"]["jwk"], t)

\* a get_current_user that tests the key binding before the claims
get_current_user_binding_first(request, t) ==
    IF ~request.Authorization.present
    THEN HTTPException(401, "not_authenticated")
    ELSE IF BearerToken(request.Authorization).empty
    THEN HTTPException(401, "token_not_valid")
    ELSE
    LET decoded == decode_access_token(BearerToken(request.Authorization).token, TRUE, t)
        payload == decoded.body
        user_id == UserIdOf(payload)
        role == Get(payload, "role")
    IN  IF decoded.status # 200
        THEN decoded
        ELSE IF TokenTypeCheck(payload).status # 200
        THEN TokenTypeCheck(payload)
        ELSE IF CnfCheck(request, payload, t).status # 200
        THEN CnfCheck(request, payload, t)
        ELSE IF ~TruthyStr(user_id) \/ ~TruthyStr(role)
        THEN HTTPException(403, "token_claims_incomplete")
        ELSE Ok(Principal(payload, user_id, role))

get_current_user(request, t) ==
    IF ~request.Authorization.present
    THEN HTTPException(401, "not_authenticated")
    ELSE IF BearerToken(request.Authorization).empty
    THEN HTTPException(401, "token_not_valid")
    ELSE
    LET decoded == decode_access_token(BearerToken(request.Authorization).token, TRUE, t)
        payload == decoded.body
        user_id == UserIdOf(payload)
        role == Get(payload, "role")
    IN  IF decoded.status # 200
        THEN decoded
        ELSE IF TokenTypeCheck(payload).status # 200
        THEN TokenTypeCheck(payload)
        ELSE IF ~TruthyStr(user_id) \/ ~TruthyStr(role)
        THEN HTTPException(403, "token_claims_incomplete")
        ELSE IF CnfCheck(request, payload, t).status # 200
        THEN CnfCheck(request, payload, t)
        ELSE Ok(Principal(payload, user_id, role))

(***************************************************************************)
(* dependencies.py: require_roles and its inner dependency, which runs     *)
(* get_current_user first; its exception ends the request before the role *)
(* comparison.                                                             *)
(***************************************************************************)
\* a role comparison without the shortcut for an empty role list
RoleCheckNoShortcut(required_roles, _user) ==
    IF _user["role"] \notin required_roles
    THEN HTTPException(403, "insufficient_role")
    ELSE Ok(_user)

RoleCheck(required_roles, _user) ==
    IF required_roles = {}
    THEN Ok(_user)
    ELSE IF _user["role"] \notin required_roles
    THEN HTTPException(403, "insufficient_role")
    ELSE Ok(_user)

\* a gate that takes full_admin off every role list
require_roles_without_full_admin(required_roles, request, t) ==
    LET current == get_current_user(request, t)
    IN  IF current.status # 200
        THEN current
        ELSE RoleCheck(required_roles \ {"full_admin"}, current.body)

require_roles(required_roles, request, t) ==
    LET current == get_current_user(request, t)
    IN  IF current.status # 200
        THEN current
        ELSE RoleCheck(required_roles, current.body)

(***************************************************************************)
(* The user store.  A UUID primary key is a tagged number; str() of it is  *)
(* the text the tokens carry in sub.                                       *)
(***************************************************************************)
UUID(n) == [uuid |-> n]

Str(id) == ToString(id.uuid)

\* passlib's pwd_context.hash / pwd_context.verify, salt left out
get_password_hash(password) == <<"pbkdf2_sha512", password>>

verify_password(plain_password, hashed_password) ==
    hashed_password = get_password_hash(plain_password)

InitUsers ==
    { [id |-> UUID(1), username |-> "alice", full_name |-> "alice",
       password |-> get_password_hash("alice-pw"),
       role |-> "job_seeker", AccountStatus |-> "active"],
      [id |-> UUID(2), username |-> "bob", full_name |-> "bob",
       password |-> get_password_hash("bob-pw"),
       role |-> "admin", AccountStatus |-> "active"] }

\* a lookup that tells an unknown username from a wrong password
authenticate_user_telling(credentials, userset) ==
    LET found == {u \in userset : u.username = credentials.username}
    IN  IF found = {}
        THEN HTTPException(401, "username_not_found")
        ELSE IF ~verify_password(credentials.password,
                                 (CHOOSE u \in found : TRUE).password)
        THEN HTTPException(401, "username_or_password_not_found")
        ELSE LET user == CHOOSE u \in found : TRUE
             IN  Ok([user_id |-> user.id, user_role |-> user.role,
                     user_full_name |-> user.full_name,
                     user_account_status |-> user.AccountStatus])

\* select(User).where(User.username == username), one_or_none(), then the
\* single 401 for "no such user" and for "wrong password".  The source
\* builds user_account_status from user.account_status; the column of User
\* is AccountStatus (schemas/base/user.py), which is what is read here, and
\* login does not use that entry.
authenticate_user(credentials, userset) ==
    LET found == {u \in userset : u.username = credentials.username}
    IN  IF found = {} \/ ~verify_password(credentials.password,
                                          (CHOOSE u \in found : TRUE).password)
        THEN HTTPException(401, "username_or_password_not_found")
        ELSE LET user == CHOOSE u \in found : TRUE
             IN  Ok([user_id |-> user.id, user_role |-> user.role,
                     user_full_name |-> user.full_name,
                     user_account_status |-> user.AccountStatus])

(***************************************************************************)
(* routers/authentication.py: login.                                       *)
(* X-Client-JWK carries hex text; bytes.fromhex(..).decode() fails on text *)
(* that is not hex, orjson.loads on text that is not JSON.                 *)
(*   kind "empty":   the empty string (falsy, treated as not sent)         *)
(*   kind "nothex":  not hexadecimal                                       *)
(*   kind "notjson": hexadecimal of text that is not JSON                  *)
(*   kind "json":    hexadecimal of the JSON text of `val`                 *)
(***************************************************************************)
bytes_fromhex(v) == [ok |-> v.kind \in {"notjson", "json"}, text |-> v]

loads(text) ==
    IF text.kind = "json"
    THEN [ok |-> TRUE, val |-> text.val]
    ELSE [ok |-> FALSE, val |-> None]

\* the try block of login: client_jwk is None unless the header is truthy
ClientJwk(h) ==
    IF ~h.present \/ h.value.kind = "empty"
    THEN [ok |-> TRUE, bound |-> FALSE, jwk |-> "{}"]
    ELSE IF ~bytes_fromhex(h.value).ok \/ ~loads(bytes_fromhex(h.value).text).ok
    THEN [ok |-> FALSE, bound |-> FALSE, jwk |-> "{}"]
    ELSE LET client_jwk == loads(bytes_fromhex(h.value).text).val
         IN  [ok |-> TRUE, bound |-> TruthyJson(client_jwk), jwk |-> client_jwk]

LoginJti(kind, user_id, t) == <<kind, user_id, ToString(t)>>

LoginPayload(kind, user_id, role, client, t) ==
    IF client.bound
    THEN [sub |-> user_id, role |-> role, token_type |-> kind,
          jti |-> LoginJti(kind, user_id, t), cnf |-> [jwk |-> client.jwk]]
    ELSE [sub |-> user_id, role |-> role, token_type |-> kind,
          jti |-> LoginJti(kind, user_id, t)]

login(request, userset, t) ==
    LET client == ClientJwk(request.XClientJWK)
        user == authenticate_user(request.form, userset)
    IN  IF ~client.ok
        THEN HTTPException(400, "jwk_format_incomplete")
        ELSE IF user.status # 200
        THEN user
        ELSE
        LET user_id == Str(user.body.user_id)
            role == user.body.user_role
            access_payload == LoginPayload("access", user_id, role, client, t)
            refresh_payload == LoginPayload("refresh", user_id, role, client, t)
        IN  Ok([user_id |-> user_id,
                role |-> role,
                access_token |->
                    create_access_token(access_payload, ACCESS_TOKEN_EXPIRE_MINUTES, t),
                refresh_token |->
                    create_access_token(refresh_payload, REFRESH_TOKEN_EXPIRE_MINUTES, t),
                token_type |-> "bearer",
                access_expires_in |-> ACCESS_TOKEN_EXPIRE_MINUTES * 60,
                refresh_expires_in |-> REFRESH_TOKEN_EXPIRE_MINUTES * 60])

(***************************************************************************)
(* routers/authentication.py: refresh_token.                               *)
(***************************************************************************)
MalformedToken == [wf |-> FALSE, alg |-> "", key |-> "", payload |-> <<>>]

\* header.removeprefix("Bearer ").strip(): "Bearer" alone keeps its text
RefreshBearer(h) ==
    IF h.value.kind = "scheme_only" THEN MalformedToken
    ELSE IF h.value.kind = "lower" THEN Garbled(h.value.token)
    ELSE h.value.token

\* Authorization-Refresh first, Authorization as the fallback
RefreshCredential(request) ==
    IF request.AuthorizationRefresh.present
    THEN [found |-> TRUE, token |-> RefreshBearer(request.AuthorizationRefresh)]
    ELSE IF request.Authorization.present
    THEN [found |-> TRUE, token |-> RefreshBearer(request.Authorization)]
    ELSE [found |-> FALSE, token |-> MalformedToken]

\* request.headers.get("DPoP") or request.query_params.get("dpop")
RefreshDpop(request) ==
    IF request.DPoP.present THEN request.DPoP ELSE request.query_dpop

\* the inline proof check, the same text in the refresh and the access branch:
\* everything but the two HTTPExceptions it raises itself is caught and
\* answered with the signature/format 401
RefreshProofCheck(dpop, cnf, method, required_detail) ==
    IF ~dpop.present
    THEN HTTPException(401, required_detail)
    ELSE
    LET jwk_obj == JWK_from_json(cnf["jwk"])
        dpop_jwt == JWT_verify(dpop.value, jwk_obj.key)
        c == dpop_jwt.claims
    IN  IF ~jwk_obj.ok \/ ~dpop_jwt.ok
        THEN HTTPException(401, "dpop_signature_or_format_invalid")
        ELSE IF ~HasClaim(c, "htu") \/ ~HasClaim(c, "htm")
        THEN HTTPException(401, "dpop_invalid")
        ELSE IF c["htm"].t # "str"
        THEN HTTPException(401, "dpop_signature_or_format_invalid")
        ELSE IF Upper(c["htm"].v) # Upper(method)
        THEN HTTPException(401, "dpop_method_incompatible")
        ELSE Ok(NoBody)

RefreshJti(kind, t) == <<kind, ToString(t)>>

\* new payloads that copy the presented token's type
RefreshPayloadSameType(kind, payload, t) ==
    IF "cnf" \in DOMAIN payload /\ TruthyDict(payload["cnf"])
    THEN [sub |-> Get(payload, "sub"), role |-> Get(payload, "role"),
          token_type |-> payload["token_type"], jti |-> RefreshJti(kind, t),
          cnf |-> payload["cnf"]]
    ELSE [sub |-> Get(payload, "sub"), role |-> Get(payload, "role"),
          token_type |-> payload["token_type"], jti |-> RefreshJti(kind, t)]

RefreshPayload(kind, payload, t) ==
    IF "cnf" \in DOMAIN payload /\ TruthyDict(payload["cnf"])
    THEN [sub |-> Get(payload, "sub"), role |-> Get(payload, "role"),
          token_type |-> kind, jti |-> RefreshJti(kind, t), cnf |-> payload["cnf"]]
    ELSE [sub |-> Get(payload, "sub"), role |-> Get(payload, "role"),
          token_type |-> kind, jti |-> RefreshJti(kind, t)]

\* the branches without the one for access tokens
RefreshBindingRefreshOnly(request, payload) ==
    IF payload["token_type"] # "refresh"
    THEN HTTPException(401, "token_type_unsupported")
    ELSE IF HasCnf(payload) /\ "jwk" \in DOMAIN payload["cnf"]
    THEN RefreshProofCheck(RefreshDpop(request), payload["cnf"], request.method,
                           "dpop_required_for_refresh_token")
    ELSE Ok(NoBody)

RefreshBinding(request, payload) ==
    IF HasCnf(payload) /\ "jwk" \in DOMAIN payload["cnf"]
    THEN RefreshProofCheck(RefreshDpop(request), payload["cnf"], request.method,
            IF payload["token_type"] = "refresh"
            THEN "dpop_required_for_refresh_token"
            ELSE "dpop_required_for_access_token")
    ELSE Ok(NoBody)

refresh_token(request, t) ==
    IF ~RefreshCredential(request).found
    THEN HTTPException(401, "no_refresh_or_access_token")
    ELSE
    LET decoded == decode_access_token(RefreshCredential(request).token, TRUE, t)
        payload == decoded.body
    IN  IF decoded.status # 200
        THEN decoded
        ELSE IF Get(payload, "token_type") \notin {"access", "refresh"}
        THEN HTTPException(401, "token_type_unsupported")
        ELSE IF RefreshBinding(request, payload).status # 200
        THEN RefreshBinding(request, payload)
        ELSE Ok([access_token |->
                    create_access_token(RefreshPayload("access", payload, t),
                                        ACCESS_TOKEN_EXPIRE_MINUTES, t),
                 refresh_token |->
                    create_access_token(RefreshPayload("refresh", payload, t),
                                        REFRESH_TOKEN_EXPIRE_MINUTES, t),
                 token_type |-> "bearer"])

(***************************************************************************)
(* Requests.  The routes fix the method and the path: POST /refresh-token/ *)
(* and, for a protected endpoint, GET /get_me/.                            *)
(***************************************************************************)
GET == <<"G","E","T">>
POST == <<"P","O","S","T">>
RefreshPath == <<"/","r","e","f","r","e","s","h","-","t","o","k","e","n","/">>
ProtectedPath == <<"/","g","e","t","_","m","e","/">>
Origin == <<"h","t","t","p","s",":","/","/","k",".","i","r">>

Roles == {"full_admin", "admin", "employer", "job_seeker"}

Bearer(token) == Header([kind |-> "bearer", token |-> token])
LowerBearer(token) == Header([kind |-> "lower", token |-> token])
BareToken(token) == Header([kind |-> "bare", token |-> token])
SchemeOnly == Header([kind |-> "scheme_only"])

ProtectedRequest(authorization, dpop, required_roles) ==
    [op |-> "protected", method |-> GET, path |-> ProtectedPath,
     Authorization |-> authorization, DPoP |-> dpop,
     required_roles |-> required_roles]

RefreshRequest(refresh_header, authorization, dpop, query_dpop) ==
    [op |-> "refresh", method |-> POST, path |-> RefreshPath,
     AuthorizationRefresh |-> refresh_header, Authorization |-> authorization,
     DPoP |-> dpop, query_dpop |-> query_dpop]

LoginRequest(username, password, client_jwk) ==
    [op |-> "login", form |-> [username |-> username, password |-> password],
     XClientJWK |-> client_jwk]

DecodeCall(token, verify_exp) ==
    [op |-> "decode", token |-> token, verify_exp |-> verify_exp]

Idle == [op |-> "idle"]

NoResponse == [status |-> 0, detail |-> "", body |-> NoBody]

(***************************************************************************)
(* DPoP proofs a client can send with a request made at second t.          *)
(***************************************************************************)
DpopClaims(htm, htu, iat, jti) ==
    [k \in {x \in {"htm", "htu", "iat", "jti"} :
                \/ x = "htm" /\ htm # <<>>
                \/ x = "htu" /\ htu # <<>>
                \/ x = "iat" /\ iat # <<>>
                \/ x = "jti" /\ jti # <<>>} |->
        IF k = "htm" THEN htm[1]
        ELSE IF k = "htu" THEN htu[1]
        ELSE IF k = "iat" THEN iat[1]
        ELSE jti[1]]

GoodProof(signer, method, path, t) ==
    Proof(signer, DpopClaims(<<StrVal(method)>>, <<StrVal(Origin \o path)>>,
                             <<NumVal(t)>>, <<StrVal(<<"n">>)>>))

\* the proofs of a session: none, a fresh one from the bound key, a fresh
\* one from another key, one from the bound key issued 301 seconds ago
SessionProofs(method, path, t) ==
    { NoHeader,
      Header(GoodProof("k1", method, path, t)),
      Header(GoodProof("k2", method, path, t)),
      Header(GoodProof("k1", method, path, t - max_skew - 1)) }

(***************************************************************************)
(* State.                                                                  *)
(*   now     the clock, in whole seconds                                   *)
(*   users   the user table                                                *)
(*   tables  the rows of the other tables, by table name                   *)
(*   writes  how many requests changed users or tables                     *)
(*   issued  the tokens the clients of a session hold: every token a       *)
(*           login or refresh of that session returned                     *)
(*   mints   how many logins and refreshes of the session succeeded        *)
(*   ticks   how often the clock advanced                                  *)
(*   req     the request being answered (Idle between requests)            *)
(*   resp    the response to req                                           *)
(* The server keeps no token state; issued is the clients' side.           *)
(***************************************************************************)
TableNames ==
    { "notification", "jobseekerresume", "jobseekerskill", "jobseekereducation",
      "jobseekerworkexperience", "jobseekerpersonalinformation", "company",
      "image", "jobposting", "jobapplication", "savedjob", "activitylog",
      "blog", "comment", "ticket", "setting" }

EmptyTables == [k \in TableNames |-> {}]

Init ==
    /\ now = StartTime
    /\ users = InitUsers
    /\ tables = EmptyTables
    /\ writes = 0
    /\ issued = {}
    /\ mints = 0
    /\ ticks = 0
    /\ req = Idle
    /\ resp = NoResponse

TickSteps == {1, ACCESS_TOKEN_EXPIRE_MINUTES * 60, REFRESH_TOKEN_EXPIRE_MINUTES * 60}

Tick ==
    /\ req = Idle
    /\ ticks < MaxTicks
    /\ \E step \in TickSteps : now' = now + step
    /\ ticks' = ticks + 1
    /\ UNCHANGED <<users, tables, writes, issued, mints, req, resp>>

\* the response leaves the server; nothing of the request stays behind
SendResponse ==
    /\ req # Idle
    /\ req' = Idle
    /\ resp' = NoResponse
    /\ UNCHANGED <<now, users, tables, writes, issued, mints, ticks>>

MintedBy(r) == {r.body.access_token, r.body.refresh_token}

\* a session request: the client keeps the tokens of a 200 answer
Answer(request, r) ==
    /\ r.status = 200 => mints < MaxMints
    /\ req' = request
    /\ resp' = r
    /\ issued' = IF r.status = 200 THEN issued \cup MintedBy(r) ELSE issued
    /\ mints' = IF r.status = 200 THEN mints + 1 ELSE mints
    /\ UNCHANGED <<now, users, tables, writes, ticks>>

SessionUsernames == {"alice", "bob", "mallory"}
SessionPasswords == {"alice-pw", "wrong"}
SessionClientKeys == {NoHeader, Header([kind |-> "json", val |-> "k1"])}

Login ==
    /\ req = Idle
    /\ \E username \in SessionUsernames, password \in SessionPasswords,
          client_jwk \in SessionClientKeys :
           LET request == LoginRequest(username, password, client_jwk)
           IN  Answer(request, login(request, users, now))

RefreshToken ==
    /\ req = Idle
    /\ \E token \in issued, dpop \in SessionProofs(POST, RefreshPath, now),
          in_refresh_header \in BOOLEAN :
           LET request == IF in_refresh_header
                          THEN RefreshRequest(Bearer(token), NoHeader, dpop, NoHeader)
                          ELSE RefreshRequest(NoHeader, Bearer(token), dpop, NoHeader)
           IN  Answer(request, refresh_token(request, now))

SessionRoleSets == {{}, {"admin"}}

\* a protected endpoint: Depends(require_roles(...)) decides the request
GetMe ==
    /\ req = Idle
    /\ \E token \in issued, dpop \in SessionProofs(GET, ProtectedPath, now),
          required_roles \in SessionRoleSets :
           LET request == ProtectedRequest(Bearer(token), dpop, required_roles)
           IN  /\ req' = request
               /\ resp' = require_roles(required_roles, request, now)
               /\ UNCHANGED <<now, users, tables, writes, issued, mints, ticks>>

Next == Tick \/ SendResponse \/ Login \/ RefreshToken \/ GetMe

Spec == Init /\ [][Next]_vars

(***************************************************************************)
(* Single requests with arbitrary input: the handlers and the codec        *)
(* applied to every token the codec can sign for a claim set, to forged    *)
(* tokens, and to every shape of proof.  The client of such a request      *)
(* keeps nothing.                                                          *)
(***************************************************************************)
\* a claim set with the given claims; None (for cnf: <<>>) leaves one out
ClaimSet(sub, role, token_type, cnf) ==
    [k \in {"jti"} \cup {x \in {"sub", "role", "token_type", "cnf"} :
                            \/ x = "sub" /\ sub # None
                            \/ x = "role" /\ role # None
                            \/ x = "token_type" /\ token_type # None
                            \/ x = "cnf" /\ cnf # <<>>} |->
        IF k = "jti" THEN <<"probe">>
        ELSE IF k = "sub" THEN sub
        ELSE IF k = "role" THEN role
        ELSE IF k = "token_type" THEN token_type
        ELSE cnf[1]]

ProbeClaimSets ==
    {ClaimSet("1", r, "access", <<>>) : r \in Roles}
    \cup {ClaimSet("1", "job_seeker", tt, <<>>) : tt \in {"refresh", "other", None}}
    \cup {ClaimSet(None, "admin", "access", <<>>),
          ClaimSet("1", None, "access", <<>>),
          [id |-> "1", role |-> "admin", token_type |-> "access"]}
    \cup {ClaimSet("1", "job_seeker", tt, <<[jwk |-> j]>>) :
            tt \in {"access", "refresh"}, j \in {"k1", "junk", "{}"}}
    \cup {ClaimSet("1", "job_seeker", "access", <<[kid |-> "k1"]>>)}
    \cup {ClaimSet(None, "job_seeker", "refresh", <<>>),
          ClaimSet("1", None, "refresh", <<>>),
          ClaimSet("1", None, "access", <<[jwk |-> "k1"]>>),
          ClaimSet(None, "job_seeker", "access", <<[jwk |-> "junk"]>>)}

\* minutes handed to create_access_token: already expired, access, refresh
ProbeTtls == {-1, ACCESS_TOKEN_EXPIRE_MINUTES, REFRESH_TOKEN_EXPIRE_MINUTES}

SignedTokens ==
    {create_access_token(d, ttl, StartTime) : d \in ProbeClaimSets, ttl \in ProbeTtls}

AdminToken ==
    create_access_token(ClaimSet("1", "admin", "access", <<>>),
                        ACCESS_TOKEN_EXPIRE_MINUTES, StartTime)

\* the admin token re-signed with another key, re-headed with another
\* algorithm, and cut so that it no longer parses
ForgedTokens ==
    { [AdminToken EXCEPT !.key = "attacker-key"],
      [AdminToken EXCEPT !.alg = "HS256"],
      Garbled(AdminToken) }

ProbeTokens == SignedTokens \cup ForgedTokens

BoundToken(token_type, ttl) ==
    create_access_token(ClaimSet("1", "job_seeker", token_type, <<[jwk |-> "k1"]>>),
                        ttl, StartTime)

RECURSIVE Chars(_)
Chars(n) ==
    IF n < 10 THEN <<Digits[n + 1]>>
    ELSE Chars(n \div 10) \o <<Digits[(n % 10) + 1]>>

HtmValues ==
    { <<>>, <<StrVal(GET)>>, <<StrVal(<<"g","e","t">>)>>, <<StrVal(<<"G","e","t">>)>>,
      <<StrVal(POST)>>, <<StrVal(<<"p","o","s","t">>)>>, <<NumVal(7)>> }

HtuValues(path) ==
    { <<>>, <<StrVal(path)>>, <<StrVal(Origin \o path)>>,
      <<StrVal(Origin \o path \o <<"x">>)>>,
      <<StrVal(Origin \o <<"/","u","s","e","r","s","/">>)>>, <<NumVal(7)>> }

IatValues(t) ==
    { <<>>, <<NumVal(t - max_skew - 1)>>, <<NumVal(t - max_skew)>>, <<NumVal(t)>>,
      <<NumVal(t + max_skew)>>, <<NumVal(t + max_skew + 1)>>, <<NumVal(0)>>,
      <<StrVal(Chars(t))>>, <<StrVal(<<"1","2">>)>>, <<StrVal(<<"x">>)>> }

JtiValues == { <<>>, <<StrVal(<<"n">>)>> }

ProbeProofs(path, t) ==
    {Proof(signer, DpopClaims(htm, htu, iat, jti)) :
        signer \in JwkKeys, htm \in HtmValues, htu \in HtuValues(path),
        iat \in IatValues(t), jti \in JtiValues}
    \cup {GarbledProof}

ProbeAuthHeaders ==
    {NoHeader, SchemeOnly, LowerBearer(AdminToken), BareToken(AdminToken)}
    \cup {Bearer(token) : token \in ProbeTokens}

ProbeRoleSets == {{}, {"admin"}, {"full_admin", "admin"}}

ProbeProtectedRequests(t) ==
    {ProtectedRequest(h, d, rs) :
        h \in ProbeAuthHeaders,
        d \in {NoHeader, Header(GoodProof("k1", GET, ProtectedPath, t))},
        rs \in ProbeRoleSets}
    \cup {ProtectedRequest(Bearer(BoundToken("access", ACCESS_TOKEN_EXPIRE_MINUTES)),
                           Header(pf), {}) :
            pf \in ProbeProofs(ProtectedPath, t)}

ProbeRefreshRequests(t) ==
    {RefreshRequest(NoHeader, h, d, NoHeader) :
        h \in ProbeAuthHeaders,
        d \in {NoHeader, Header(GoodProof("k1", POST, RefreshPath, t))}}
    \cup {RefreshRequest(h, Bearer(AdminToken), NoHeader, q) :
            h \in {NoHeader, SchemeOnly,
                   Bearer(BoundToken("refresh", REFRESH_TOKEN_EXPIRE_MINUTES))},
            q \in {NoHeader, Header(GoodProof("k1", POST, RefreshPath, t))}}
    \cup {RefreshRequest(NoHeader, Bearer(BoundToken(tt, REFRESH_TOKEN_EXPIRE_MINUTES)),
                         Header(pf), NoHeader) :
            tt \in {"access", "refresh"}, pf \in ProbeProofs(RefreshPath, t)}

ProbeUsernames == {"alice", "bob", "mallory"}
ProbePasswords == {"alice-pw", "bob-pw", "wrong"}
ProbeClientKeys ==
    {NoHeader, Header([kind |-> "empty"]), Header([kind |-> "nothex"]),
     Header([kind |-> "notjson"])}
    \cup {Header([kind |-> "json", val |-> v]) : v \in {"k1", "junk", "{}"}}

Probe(request, r) ==
    /\ req' = request
    /\ resp' = r
    /\ UNCHANGED <<now, users, tables, writes, issued, mints, ticks>>

ProbeLogin ==
    /\ req = Idle
    /\ \E username \in ProbeUsernames, password \in ProbePasswords,
          client_jwk \in ProbeClientKeys :
           LET request == LoginRequest(username, password, client_jwk)
           IN  Probe(request, login(request, users, now))

ProbeRefreshToken ==
    /\ req = Idle
    /\ \E request \in ProbeRefreshRequests(now) :
           Probe(request, refresh_token(request, now))

ProbeGetMe ==
    /\ req = Idle
    /\ \E request \in ProbeProtectedRequests(now) :
           Probe(request, require_roles(request.required_roles, request, now))

ProbeDecode ==
    /\ req = Idle
    /\ \E token \in ProbeTokens, verify_exp \in BOOLEAN :
           Probe(DecodeCall(token, verify_exp),
                 decode_access_token(token, verify_exp, now))

NextProbe ==
    Tick \/ SendResponse \/ ProbeLogin \/ ProbeRefreshToken \/ ProbeGetMe \/ ProbeDecode

SpecProbe == Init /\ [][NextProbe]_vars

(***************************************************************************)
(* Vocabulary of the properties, stated apart from the handlers.           *)
(***************************************************************************)
\* the token a request presents in a header, when the header holds one
HeaderHoldsToken(h) == h.present /\ h.value.kind \in {"bearer", "bare"}

ValidlySigned(token) ==
    token.wf /\ token.alg = "HS512" /\ token.key = SECRET_KEY

Unexpired(token) == token.payload["exp"] > now

Produced == DOMAIN resp.body # {}

ProtectedWithToken ==
    req.op = "protected" /\ HeaderHoldsToken(req.Authorization)

ProtectedToken == req.Authorization.value.token

\* C1: get_current_user accepts a token only if its token_type is "access";
\* a validly signed, unexpired token of any other type, or of none, is
\* answered 401 and no principal is produced.
C1_AccessTokensOnly ==
    /\ (req.op = "protected" /\ resp.status = 200) =>
            /\ ProtectedWithToken
            /\ "token_type" \in DOMAIN ProtectedToken.payload
            /\ ProtectedToken.payload["token_type"] = "access"
    /\ (/\ ProtectedWithToken
        /\ ValidlySigned(ProtectedToken)
        /\ Unexpired(ProtectedToken)
        /\ \/ "token_type" \notin DOMAIN ProtectedToken.payload
           \/ ProtectedToken.payload["token_type"] # "access") =>
            /\ resp.status = 401
            /\ resp.detail = "not_an_access_token"
            /\ ~Produced

\* a live, validly signed refresh token is presented to a protected
\* endpoint and answered 401
C1_Witness ==
    /\ ProtectedWithToken
    /\ ValidlySigned(ProtectedToken)
    /\ Unexpired(ProtectedToken)
    /\ "token_type" \in DOMAIN ProtectedToken.payload
    /\ ProtectedToken.payload["token_type"] = "refresh"
    /\ resp.status = 401
    /\ ~Produced

\* C2: a validly signed token whose exp lies in the past (in particular one
\* minted with a negative TTL) fails decode_access_token with 401 "expired"
\* when verify_exp is true and decodes to its claims when verify_exp is
\* false; no handler that decodes with verify_exp true answers 200 to it.
C2_ExpiryEnforced ==
    /\ (req.op = "decode" /\ ValidlySigned(req.token)
            /\ req.token.payload["exp"] < now) =>
            IF req.verify_exp
            THEN resp.status = 401 /\ resp.detail = "token_expired" /\ ~Produced
            ELSE resp.status = 200 /\ resp.body = req.token.payload
    /\ (ProtectedWithToken /\ ValidlySigned(ProtectedToken)
            /\ ProtectedToken.payload["exp"] < now) =>
            resp.status = 401 /\ resp.detail = "token_expired"
    /\ (req.op = "refresh" /\ ~req.AuthorizationRefresh.present
            /\ HeaderHoldsToken(req.Authorization)
            /\ ValidlySigned(req.Authorization.value.token)
            /\ req.Authorization.value.token.payload["exp"] < now) =>
            resp.status = 401 /\ resp.detail = "token_expired"

\* a token minted with a TTL of -1 minute is decoded, with verify_exp true,
\* in the second it was minted, and is answered 401 "expired"
C2_Witness ==
    /\ req.op = "decode"
    /\ req.verify_exp
    /\ ValidlySigned(req.token)
    /\ req.token.payload["exp"] = StartTime - 60
    /\ now = StartTime
    /\ resp.status = 401
    /\ resp.detail = "token_expired"

\* C3: require_roles(R) answers with get_current_user's failure when that
\* fails (the role comparison is not reached); otherwise an empty R passes
\* every principal, and a non-empty R passes the principal exactly when its
\* role is in R and answers 403 when it is not.
C3_RoleGate ==
    req.op = "protected" =>
        LET current == get_current_user(req, now)
        IN  IF current.status # 200
            THEN resp = current /\ resp.detail # "insufficient_role"
            ELSE IF req.required_roles = {} \/ current.body["role"] \in req.required_roles
            THEN resp.status = 200 /\ resp.body = current.body
            ELSE resp.status = 403 /\ resp.detail = "insufficient_role" /\ ~Produced

\* a job_seeker principal meets require_roles("admin") and is answered 403
C3_Witness ==
    /\ req.op = "protected"
    /\ req.required_roles = {"admin"}
    /\ get_current_user(req, now).status = 200
    /\ get_current_user(req, now).body["role"] = "job_seeker"
    /\ resp.status = 403

(***************************************************************************)
(* Key binding, as section 4.2 (mode B) of the specification words it.     *)
(***************************************************************************)
SameLetter(a, b) ==
    \/ a = b
    \/ \E i \in DOMAIN Lowers : {a, b} = {Lowers[i], Uppers[i]}

EqualIgnoringCase(s1, s2) ==
    /\ Len(s1) = Len(s2)
    /\ \A i \in DOMAIN s1 : SameLetter(s1[i], s2[i])

HasText(claims, k) ==
    k \in DOMAIN claims /\ claims[k].t = "str" /\ Len(claims[k].v) > 0

SignedBy(dpop, jwk) ==
    dpop.present /\ dpop.value.wf /\ jwk \in JwkKeys /\ dpop.value.signer = jwk

\* the proof is there, signed by the bound key, holds htm, htu, iat and jti,
\* names the request's method and path, and was issued within 300 seconds
ProofPasses(dpop, jwk, method, path) ==
    /\ SignedBy(dpop, jwk)
    /\ LET c == dpop.value.claims
       IN  /\ HasText(c, "htm") /\ HasText(c, "htu")
           /\ HasClaim(c, "iat") /\ HasClaim(c, "jti")
           /\ EqualIgnoringCase(c["htm"].v, method)
           /\ EndsWith(c["htu"].v, path)
           /\ IntOf(c["iat"]).ok
           /\ now - IntOf(c["iat"]).n <= 300
           /\ IntOf(c["iat"]).n - now <= 300

HasSubjectAndRole(payload) ==
    /\ \/ "sub" \in DOMAIN payload /\ TruthyStr(payload["sub"])
       \/ "id" \in DOMAIN payload /\ TruthyStr(payload["id"])
    /\ "role" \in DOMAIN payload /\ TruthyStr(payload["role"])

CarriesJwk(payload) ==
    "cnf" \in DOMAIN payload /\ "jwk" \in DOMAIN payload["cnf"]

\* a protected request whose access token is live, complete and bound
BoundProtected ==
    /\ ProtectedWithToken
    /\ ValidlySigned(ProtectedToken)
    /\ Unexpired(ProtectedToken)
    /\ "token_type" \in DOMAIN ProtectedToken.payload
    /\ ProtectedToken.payload["token_type"] = "access"
    /\ HasSubjectAndRole(ProtectedToken.payload)
    /\ CarriesJwk(ProtectedToken.payload)

RefreshToken_Presented == RefreshCredential(req).token

\* a refresh request whose access or refresh token is live and bound
BoundRefresh ==
    /\ req.op = "refresh"
    /\ RefreshCredential(req).found
    /\ ValidlySigned(RefreshToken_Presented)
    /\ Unexpired(RefreshToken_Presented)
    /\ "token_type" \in DOMAIN RefreshToken_Presented.payload
    /\ RefreshToken_Presented.payload["token_type"] \in {"access", "refresh"}
    /\ CarriesJwk(RefreshToken_Presented.payload)

\* C4: with a token that carries cnf.jwk, a request without a proof and a
\* request whose proof is invalid or does not match are answered 401, by
\* get_current_user and by refresh_token alike, and nothing is produced.
C4_BoundNeedsProof ==
    /\ (BoundProtected
            /\ ~ProofPasses(req.DPoP, ProtectedToken.payload["cnf"]["jwk"],
                            req.method, req.path)) =>
            resp.status = 401 /\ ~Produced
    /\ (BoundRefresh
            /\ ~ProofPasses(RefreshDpop(req),
                            RefreshToken_Presented.payload["cnf"]["jwk"],
                            req.method, req.path)) =>
            resp.status = 401 /\ ~Produced

\* C5: for a bound token, refresh_token mints only if the proof passes
\* every check of _validate_dpop_proof for the same key and request.
C5_RefreshUsesVerifier ==
    (BoundRefresh /\ resp.status = 200) =>
        validate_dpop_proof(
            [method |-> req.method, path |-> req.path, DPoP |-> RefreshDpop(req)],
            RefreshToken_Presented.payload["cnf"]["jwk"], now).status = 200

\* a bound protected request behind a gate that admits every role, with a
\* proof signed by the bound key
ProofReachesChecks ==
    /\ BoundProtected
    /\ req.required_roles = {}
    /\ SignedBy(req.DPoP, ProtectedToken.payload["cnf"]["jwk"])

ProofClaims == req.DPoP.value.claims

\* C6: a proof with a valid signature whose htm differs from the request
\* method, letter case aside, is answered 401; one whose htm equals the
\* method up to letter case passes the method check.
C6_MethodIgnoringCase ==
    (ProofReachesChecks /\ HasText(ProofClaims, "htm")) =>
        IF EqualIgnoringCase(ProofClaims["htm"].v, req.method)
        THEN /\ resp.detail # "dpop_method_mismatch"
             /\ ProofPasses(req.DPoP, ProtectedToken.payload["cnf"]["jwk"],
                            req.method, req.path) => resp.status = 200
        ELSE /\ resp.status = 401
             /\ ~Produced
             /\ (HasClaim(ProofClaims, "htu") /\ HasClaim(ProofClaims, "iat")
                    /\ HasClaim(ProofClaims, "jti")) =>
                        resp.detail = "dpop_method_mismatch"

\* a proof signed by the bound key names POST on a GET request: 401
C6_Witness ==
    /\ ProofReachesChecks
    /\ HasText(ProofClaims, "htm")
    /\ ProofClaims["htm"].v = POST
    /\ req.method = GET
    /\ resp.status = 401
    /\ resp.detail = "dpop_method_mismatch"

\* C7: a proof that passes the signature, presence, method and path checks
\* is accepted exactly when |now - iat| <= 300, and answered 401 otherwise.
C7_SkewWindow ==
    (/\ ProofReachesChecks
     /\ HasText(ProofClaims, "htm") /\ HasText(ProofClaims, "htu")
     /\ HasClaim(ProofClaims, "iat") /\ HasClaim(ProofClaims, "jti")
     /\ EqualIgnoringCase(ProofClaims["htm"].v, req.method)
     /\ EndsWith(ProofClaims["htu"].v, req.path)
     /\ ProofClaims["iat"].t = "num") =>
        IF now - ProofClaims["iat"].v <= 300 /\ ProofClaims["iat"].v - now <= 300
        THEN resp.status = 200
        ELSE resp.status = 401 /\ resp.detail = "dpop_stale_or_skewed" /\ ~Produced

\* a proof dated exactly 300 seconds ahead of the clock is accepted
C7_Witness ==
    /\ ProofReachesChecks
    /\ HasClaim(ProofClaims, "iat")
    /\ ProofClaims["iat"].t = "num"
    /\ ProofClaims["iat"].v = now + 300
    /\ resp.status = 200

(***************************************************************************)
(* Login and refresh.                                                      *)
(***************************************************************************)
LoginAnswered == req.op = "login" /\ resp.status = 200

Bound(token, jwk) ==
    CarriesJwk(token.payload) /\ token.payload["cnf"]["jwk"] = jwk

Unbound(token) == "cnf" \notin DOMAIN token.payload

UnknownUsername(username) == \A u \in users : u.username # username

WrongPassword(username, password) ==
    \E u \in users :
        u.username = username /\ ~verify_password(password, u.password)

FailedCredentials ==
    /\ req.op = "login"
    /\ \/ UnknownUsername(req.form.username)
       \/ WrongPassword(req.form.username, req.form.password)

GenericFailure ==
    /\ resp.status = 401
    /\ resp.detail = "username_or_password_not_found"
    /\ ~Produced

\* C9 as stated: every login with an unknown username and every login with
\* a wrong password is answered with the same 401 and the same detail, and
\* mints nothing.
C9_SameFailureAlways == FailedCredentials => GenericFailure

ClientKeyDecodes(h) == ~h.present \/ h.value.kind \in {"empty", "json"}

\* C9, amended: when X-Client-JWK is absent or decodes, a login with an
\* unknown username and one with a wrong password get the same 401 with the
\* same detail and no token; with any one X-Client-JWK, the two causes get
\* equal responses.
C9_GenericLoginFailure ==
    /\ (FailedCredentials /\ ClientKeyDecodes(req.XClientJWK)) => GenericFailure
    /\ FailedCredentials =>
           /\ ~Produced
           /\ \A u \in ProbeUsernames, p \in ProbePasswords :
                  (UnknownUsername(u) \/ WrongPassword(u, p)) =>
                      login(LoginRequest(u, p, req.XClientJWK), users, now) = resp

\* an unknown username, with a client key that decodes, gets the generic 401
C9_Witness ==
    /\ req.op = "login"
    /\ UnknownUsername(req.form.username)
    /\ req.XClientJWK.present
    /\ req.XClientJWK.value.kind = "json"
    /\ GenericFailure

Ttl(token) ==
    IF token.payload["token_type"] = "access"
    THEN ACCESS_TOKEN_EXPIRE_MINUTES * 60
    ELSE REFRESH_TOKEN_EXPIRE_MINUTES * 60

\* C10: every successful refresh returns an access and a refresh token whose
\* jti differs from the presented token's and from that of every token of
\* the same type minted earlier for the subject, and whose exp is counted
\* from the current time.
C10_FreshTokens ==
    [][(req'.op = "refresh" /\ resp'.status = 200) =>
          LET presented == RefreshCredential(req').token
              minted == {resp'.body.access_token, resp'.body.refresh_token}
          IN  /\ {m.payload["token_type"] : m \in minted} = {"access", "refresh"}
              /\ \A m \in minted :
                    /\ m.payload["jti"] # presented.payload["jti"]
                    /\ m.payload["exp"] = now' + Ttl(m)
                    /\ \A old \in issued :
                          (/\ old.payload["token_type"] = m.payload["token_type"]
                           /\ old.payload["sub"] = presented.payload["sub"]) =>
                              old.payload["jti"] # m.payload["jti"]]_vars

(***************************************************************************)
(* Refresh and the life of a token.                                        *)
(***************************************************************************)
\* a refresh request whose token is validly signed and has not expired
RefreshWithLiveToken ==
    /\ req.op = "refresh"
    /\ RefreshCredential(req).found
    /\ ValidlySigned(RefreshToken_Presented)
    /\ Unexpired(RefreshToken_Presented)

\* the key binding of the presented token, if it has one, is satisfied
RefreshBindingMet ==
    \/ ~CarriesJwk(RefreshToken_Presented.payload)
    \/ ProofPasses(RefreshDpop(req), RefreshToken_Presented.payload["cnf"]["jwk"],
                   req.method, req.path)

\* a 15-minute access token and a 7-day refresh token, both signed
FullNewPair ==
    /\ {"access_token", "refresh_token"} \subseteq DOMAIN resp.body
    /\ ValidlySigned(resp.body.access_token)
    /\ ValidlySigned(resp.body.refresh_token)
    /\ resp.body.access_token.payload["token_type"] = "access"
    /\ resp.body.access_token.payload["exp"] = now + 15 * 60
    /\ resp.body.refresh_token.payload["token_type"] = "refresh"
    /\ resp.body.refresh_token.payload["exp"] = now + 7 * 24 * 60 * 60

\* C11: refresh_token accepts a validly signed, unexpired token of type
\* access as well as of type refresh and returns a full new pair for both;
\* any other or missing token_type is answered 401 and nothing is minted.
C11_EitherTypeRefreshes ==
    RefreshWithLiveToken =>
        IF /\ "token_type" \in DOMAIN RefreshToken_Presented.payload
           /\ RefreshToken_Presented.payload["token_type"] \in {"access", "refresh"}
        THEN RefreshBindingMet => (resp.status = 200 /\ FullNewPair)
        ELSE resp.status = 401 /\ ~Produced

\* an access token presented to refresh_token is answered with a new pair
C11_Witness ==
    /\ RefreshWithLiveToken
    /\ "token_type" \in DOMAIN RefreshToken_Presented.payload
    /\ RefreshToken_Presented.payload["token_type"] = "access"
    /\ resp.status = 200
    /\ FullNewPair

Expired(token, t) == token.payload["exp"] < t

\* C12: refresh_token answers a token whose exp has passed with 401 and
\* mints nothing; once every token the clients hold has expired, a refresh
\* leaves them without a valid token; the presented token stays as it was.
C12_NoRefreshAfterExpiry ==
    [][req'.op = "refresh" =>
          LET presented == RefreshCredential(req').token
          IN  /\ presented \in issued /\ presented \in issued'
              /\ Expired(presented, now') =>
                    /\ resp'.status = 401
                    /\ DOMAIN resp'.body = {}
                    /\ issued' = issued
              /\ (\A token \in issued : Expired(token, now')) =>
                    (\A token \in issued' : Expired(token, now'))]_vars

\* every token of the session has expired and a refresh was turned down
C12_Witness ==
    /\ req.op = "refresh"
    /\ \A token \in issued : Expired(token, now)
    /\ RefreshToken_Presented.payload["token_type"] = "refresh"
    /\ resp.status = 401
    /\ resp.detail = "token_expired"

MintedByLogin(token) == Len(token.payload["jti"]) = 3

MintedByRefresh(token) == Len(token.payload["jti"]) = 2

\* the proof a request carries satisfies the binding of its token
BindingMet(token, dpop) ==
    \/ ~CarriesJwk(token.payload)
    \/ ProofPasses(dpop, token.payload["cnf"]["jwk"], req.method, req.path)

session_get(rows, id) == {r \in rows : r.id = id}

One(rows) == CHOOSE r \in rows : TRUE

Outcome(response, userset, tbls) ==
    [resp |-> response, users |-> userset, tables |-> tbls]

\* for field, value in update_data.items(): setattr(row, field, value)
setattrs(row, update_data) ==
    [f \in DOMAIN row |-> IF f \in DOMAIN update_data THEN update_data[f] ELSE row[f]]

\* a pop that takes nothing out
pop_nothing(update_data, fields) == update_data

\* update_data.pop(f) for the fields named
pop(update_data, fields) ==
    [f \in DOMAIN update_data \ fields |-> update_data[f]]

\* Field(default_factory=uuid4): the primary key of a new row, an id that no
\* row of the table has and that no row had at the start
uuid4(rows) ==
    LET used == {r.id.uuid : r \in rows} \cup {FirstFreeId - 1}
    IN  UUID(1 + CHOOSE n \in used : \A m \in used : m <= n)

\* an owner column that takes the nil UUID whatever the principal's id
column_of_nil(requester_id) == UUID(0)

\* the value an owner column takes when the handler stores the principal's
\* id, the string of a UUID, in it
column_of(requester_id) ==
    UUID(CHOOSE n \in 1..FirstFreeId : ToString(n) = requester_id)

\* the try block of the two create_user handlers: the User row is built
\* from the fields of the body, among them user_create.account_status, and
\* committed; a body without that attribute raises inside the try, and a
\* username that is taken violates the unique constraint
add_user(user_create, full_name, userset, tbls) ==
    IF "account_status" \notin DOMAIN user_create
    THEN Outcome(HTTPException(500, "error_creating_user"), userset, tbls)
    ELSE IF \E u \in userset : u.username = user_create["username"]
    THEN Outcome(HTTPException(409, "already_registered"), userset, tbls)
    ELSE LET db_user == [id |-> uuid4(userset),
                         username |-> user_create["username"],
                         full_name |-> full_name,
                         password |-> get_password_hash(user_create["password"]),
                         role |-> user_create["role"],
                         AccountStatus |-> user_create["account_status"]]
         IN  Outcome(Ok(db_user), userset \cup {db_user}, tbls)

(***************************************************************************)
(* routers/user.py                                                         *)
(***************************************************************************)
\* an admin check that lets an admin write any user
AdminUserCheckAnyTarget(requester_id_str, target_user) == TRUE

\* the test patch_user and delete_user make for an admin requester
AdminUserCheck(requester_id_str, target_user) ==
    ~ (/\ Str(target_user.id) # requester_id_str
       /\ target_user.role \notin {"job_seeker", "employer"})

router_user(request, userset, tbls, t) ==
    LET Handle(current) ==
            LET _user == current.body
                requester_role == _user["role"]
                requester_id_str == _user["id"]
                visible ==
                    IF requester_role = "full_admin" THEN userset
                    ELSE IF requester_role = "admin"
                    THEN {u \in userset : u.role # "full_admin"}
                    ELSE {u \in userset : u.role \in {"employer", "job_seeker"}}
                found == session_get(userset, request.id)
                target_user == One(found)
                target_id_str == Str(target_user.id)
                hashed == [f \in DOMAIN request.body |->
                              IF f = "password" THEN get_password_hash(request.body[f])
                              ELSE request.body[f]]
                update_data == IF requester_role # "full_admin"
                               THEN pop(hashed, {"role", "account_status"})
                               ELSE hashed
                denied ==
                    IF requester_role = "admin"
                    THEN ~AdminUserCheck(requester_id_str, target_user)
                    ELSE IF requester_role \in {"job_seeker", "employer"}
                    THEN target_id_str # requester_id_str
                    ELSE FALSE
            IN  IF request.op = "create_user"
                THEN add_user(request.body,
                              IF Get(request.body, "full_name") # None
                              THEN request.body["full_name"]
                              ELSE request.body["username"],
                              userset, tbls)
                ELSE IF current.status # 200
                THEN Outcome(current, userset, tbls)
                ELSE IF request.op = "get_user"
                THEN IF session_get(visible, request.id) = {}
                     THEN Outcome(HTTPException(404, "user_not_found"), userset, tbls)
                     ELSE Outcome(Ok(One(session_get(visible, request.id))), userset, tbls)
                ELSE IF found = {}
                THEN Outcome(HTTPException(404, "user_not_found"), userset, tbls)
                ELSE IF denied
                THEN Outcome(HTTPException(403, "not_allowed_on_this_user"), userset, tbls)
                ELSE IF request.op = "patch_user"
                THEN IF /\ requester_role = "admin"
                        /\ target_user.role = "full_admin"
                        /\ target_id_str # requester_id_str
                     THEN Outcome(HTTPException(403, "not_allowed_on_full_admin"),
                                  userset, tbls)
                     ELSE
                     IF /\ requester_role = "full_admin"
                        /\ "role" \in DOMAIN update_data
                        /\ update_data["role"] \notin Roles
                     THEN Outcome(HTTPException(400, "invalid_role"), userset, tbls)
                     ELSE Outcome(Ok(setattrs(target_user, update_data)),
                                  (userset \ {target_user})
                                      \cup {setattrs(target_user, update_data)},
                                  tbls)
                ELSE Outcome(Ok([msg |-> "user_deleted"]), userset \ {target_user}, tbls)
    IN  Handle(require_roles({"full_admin", "admin", "employer", "job_seeker"},
                             request, t))

\* session.delete / setattr, then commit: the rows of one table that go and
\* the rows that take their place
Commit(tbls, table, gone, come) == [tbls EXCEPT ![table] = (@ \ gone) \cup come]

\* routers/authentication.py create_user, POST /sign-up/: no dependency on a
\* principal
sign_up(request, userset, tbls) ==
    LET user_create == request.body
    IN  IF user_create["role"] \in {"full_admin", "admin"}
        THEN Outcome(HTTPException(403, "sign_up_role_refused"), userset, tbls)
        ELSE add_user(user_create, user_create["username"], userset, tbls)

(***************************************************************************)
(* routers/notification.py                                                 *)
(***************************************************************************)
router_notification(request, userset, tbls, t) ==
    LET Handle(current) ==
            LET _user == current.body
                requester_role == _user["role"]
                requester_id == _user["id"]
                rows == tbls["notification"]
                found == session_get(rows, request.id)
                notification == One(found)
                owners == session_get(userset, notification.user_id)
                owner == One(owners)
                update_data == IF requester_role # "full_admin"
                               THEN pop(request.body, {"user_id"})
                               ELSE request.body
                Raise(status, detail) == Outcome(HTTPException(status, detail), userset, tbls)
            IN  IF current.status # 200
                THEN Outcome(current, userset, tbls)
                ELSE IF found = {}
                THEN Raise(404, "notification_not_found")
                ELSE IF request.op = "get_notification" /\ requester_role = "full_admin"
                THEN Outcome(Ok(notification), userset, tbls)
                ELSE IF owners = {}
                THEN Raise(404, "notification_owner_not_found")
                ELSE IF requester_role = "admin" /\ owner.role = "full_admin"
                THEN Raise(403, "admin_cannot_touch_full_admin_notifications")
                ELSE IF /\ requester_role \notin {"full_admin", "admin"}
                        /\ Str(notification.user_id) # requester_id
                THEN Raise(403, "not_allowed_on_this_notification")
                ELSE IF request.op = "get_notification"
                THEN Outcome(Ok(notification), userset, tbls)
                ELSE IF request.op = "patch_notification"
                THEN Outcome(Ok(setattrs(notification, update_data)), userset,
                             Commit(tbls, "notification", {notification}, {setattrs(notification, update_data)}))
                ELSE Outcome(Ok([msg |-> "notification_deleted"]), userset,
                             Commit(tbls, "notification", {notification}, {}))
    IN  Handle(require_roles({"full_admin", "admin", "employer", "job_seeker"},
                             request, t))

(***************************************************************************)
(* routers/job_seeker_resume.py                                            *)
(***************************************************************************)
router_job_seeker_resume(request, userset, tbls, t) ==
    LET READ_ROLE == {"full_admin", "admin", "job_seeker", "employer"}
        WRITE_ROLE == {"full_admin", "admin", "job_seeker"}
        Handle(current) ==
            LET _user == current.body
                requester_role == _user["role"]
                requester_id == _user["id"]
                rows == tbls["jobseekerresume"]
                found == session_get(rows, request.id)
                jsr == One(found)
                update_data == request.body
                Raise(status, detail) == Outcome(HTTPException(status, detail), userset, tbls)
                Add(db) == Outcome(Ok(db), userset, Commit(tbls, "jobseekerresume", {}, {db}))
            IN  IF current.status # 200
                THEN Outcome(current, userset, tbls)
                ELSE IF request.op = "create_job_seeker_resume"
                THEN IF requester_role = "job_seeker"
                     THEN Add([id |-> uuid4(rows), user_id |-> column_of(requester_id),
                               data |-> request.body["data"]])
                     ELSE IF "user_id" \notin DOMAIN request.body
                     THEN Raise(400, "user_id_is_required_for_admins")
                     ELSE IF session_get(userset, request.body["user_id"]) = {}
                     THEN Raise(404, "target_user_not_found")
                     ELSE Add([id |-> uuid4(rows), user_id |-> request.body["user_id"],
                               data |-> request.body["data"]])
                ELSE IF found = {}
                THEN Raise(404, "job_seeker_resume_not_found")
                ELSE IF requester_role = "job_seeker" /\ Str(jsr.user_id) # requester_id
                THEN Raise(403, "not_allowed_on_this_resume")
                ELSE IF request.op = "get_job_seeker_resume"
                THEN Outcome(Ok(jsr), userset, tbls)
                ELSE IF request.op = "patch_job_seeker_resume"
                THEN IF requester_role = "job_seeker" /\ "user_id" \in DOMAIN update_data
                     THEN Raise(403, "cannot_change_user_id_of_resume")
                     ELSE IF /\ "user_id" \in DOMAIN update_data
                             /\ session_get(userset, update_data["user_id"]) = {}
                     THEN Raise(404, "target_user_not_found")
                     ELSE Outcome(Ok(setattrs(jsr, update_data)), userset,
                                  Commit(tbls, "jobseekerresume", {jsr}, {setattrs(jsr, update_data)}))
                ELSE Outcome(Ok([msg |-> "job_seeker_resume_deleted"]), userset,
                             Commit(tbls, "jobseekerresume", {jsr}, {}))
    IN  Handle(require_roles(IF request.op = "get_job_seeker_resume" THEN READ_ROLE ELSE WRITE_ROLE,
                             request, t))

(***************************************************************************)
(* routers/image.py; a PATCH is modelled without a new file part.          *)
(***************************************************************************)
router_image(request, userset, tbls, t) ==
    LET Handle(current) ==
            LET _user == current.body
                requester_role == _user["role"]
                requester_id == _user["id"]
                rows == tbls["image"]
                found == session_get(rows, request.id)
                image == One(found)
                form == request.body
                update_data ==
                    IF requester_role \in {"full_admin", "admin"}
                    THEN form
                    ELSE pop(form, {"user_id"})
                Raise(status, detail) == Outcome(HTTPException(status, detail), userset, tbls)
                Add(db) == Outcome(Ok(db), userset, Commit(tbls, "image", {}, {db}))
            IN  IF current.status # 200
                THEN Outcome(current, userset, tbls)
                ELSE IF request.op = "create_image"
                THEN IF requester_role \in {"full_admin", "admin"}
                     THEN LET target_user_id ==
                                  IF "user_id" \in DOMAIN form THEN form["user_id"]
                                  ELSE column_of(requester_id)
                          IN  IF session_get(userset, target_user_id) = {}
                              THEN Raise(404, "target_user_not_found")
                              ELSE Add([id |-> uuid4(rows), user_id |-> target_user_id,
                                        data |-> form["data"]])
                     ELSE Add([id |-> uuid4(rows), user_id |-> column_of(requester_id),
                               data |-> form["data"]])
                ELSE IF request.op = "get_images_by_user"
                THEN IF /\ requester_role \notin {"full_admin", "admin"}
                        /\ Str(request.id) # requester_id
                     THEN Raise(403, "not_allowed_to_view_this_users_images")
                     ELSE Outcome(Ok([items |-> {i \in rows : i.user_id = request.id}]),
                                  userset, tbls)
                ELSE IF found = {}
                THEN Raise(404, "image_not_found")
                ELSE IF /\ requester_role \notin {"full_admin", "admin"}
                        /\ Str(image.user_id) # requester_id
                THEN Raise(403, "not_allowed_on_this_image")
                ELSE IF request.op = "patch_image"
                THEN IF /\ "user_id" \in DOMAIN update_data
                        /\ session_get(userset, update_data["user_id"]) = {}
                     THEN Raise(404, "target_user_not_found")
                     ELSE Outcome(Ok(setattrs(image, update_data)), userset,
                                  Commit(tbls, "image", {image}, {setattrs(image, update_data)}))
                ELSE Outcome(Ok([msg |-> "image_deleted"]), userset,
                             Commit(tbls, "image", {image}, {}))
    IN  Handle(require_roles({"full_admin", "admin", "employer", "job_seeker"},
                             request, t))

(***************************************************************************)
(* routers/saved_job.py                                                    *)
(***************************************************************************)
\* saved_job.user_id != requester_id: a UUID on the left and the text of the
\* token's sub on the right.  UUID.__eq__ answers NotImplemented for a str,
\* so the two are never equal, whatever the text says.
uuid_ne_str(user_id, requester_id) == TRUE

router_saved_job(request, userset, tbls, t) ==
    LET Handle(current) ==
            LET _user == current.body
                requester_role == _user["role"]
                requester_id == _user["id"]
                rows == tbls["savedjob"]
                found == session_get(rows, request.id)
                saved_job == One(found)
                update_data == IF requester_role = "job_seeker"
                               THEN pop(request.body, {"user_id"})
                               ELSE request.body
                Raise(status, detail) == Outcome(HTTPException(status, detail), userset, tbls)
                Add(db) == Outcome(Ok(db), userset, Commit(tbls, "savedjob", {}, {db}))
            IN  IF current.status # 200
                THEN Outcome(current, userset, tbls)
                ELSE IF request.op = "create_saved_job"
                THEN Add([id |-> uuid4(rows),
                          user_id |-> IF requester_role = "job_seeker"
                                      THEN column_of(requester_id)
                                      ELSE request.body["user_id"],
                          job_posting_id |-> request.body["job_posting_id"],
                          data |-> request.body["data"]])
                ELSE IF found = {}
                THEN Raise(404, "saved_job_not_found")
                ELSE IF /\ requester_role = "job_seeker"
                        /\ uuid_ne_str(saved_job.user_id, requester_id)
                THEN Raise(403, "not_allowed_on_this_saved_job")
                ELSE IF request.op = "get_saved_job"
                THEN Outcome(Ok(saved_job), userset, tbls)
                ELSE IF request.op = "patch_saved_job"
                THEN Outcome(Ok(setattrs(saved_job, update_data)), userset,
                             Commit(tbls, "savedjob", {saved_job}, {setattrs(saved_job, update_data)}))
                ELSE Outcome(Ok([msg |-> "saved_job_deleted"]), userset,
                             Commit(tbls, "savedjob", {saved_job}, {}))
    IN  Handle(require_roles({"full_admin", "admin", "job_seeker"}, request, t))

(***************************************************************************)
(* routers/employer_company.py; get_employer_company has no dependency on  *)
(* the principal at all.                                                   *)
(***************************************************************************)
\* an ownership test that lets an employer write any company
CompanyOwnerCheckAnyOwner(company, requester_id) == TRUE

\* str(company.user_id) != str(requester_id), negated
CompanyOwnerCheck(company, requester_id) == Str(company.user_id) = requester_id

router_employer_company(request, userset, tbls, t) ==
    LET Handle(current) ==
            LET _user == current.body
                requester_role == _user["role"]
                requester_id == _user["id"]
                rows == tbls["company"]
                found == session_get(rows, request.id)
                company == One(found)
                update_data == request.body
                Raise(status, detail) == Outcome(HTTPException(status, detail), userset, tbls)
            IN  IF request.op = "get_employer_company"
                THEN IF found = {}
                     THEN Raise(404, "company_not_found")
                     ELSE Outcome(Ok(company), userset, tbls)
                ELSE IF current.status # 200
                THEN Outcome(current, userset, tbls)
                ELSE IF found = {}
                THEN Raise(404, "company_not_found")
                ELSE IF requester_role = "employer" /\ ~CompanyOwnerCheck(company, requester_id)
                THEN Raise(403, "only_companies_you_own")
                ELSE IF request.op = "patch_employer_company"
                THEN IF requester_role = "employer" /\ "user_id" \in DOMAIN update_data
                     THEN Raise(403, "cannot_change_owner_of_company")
                     ELSE IF /\ "user_id" \in DOMAIN update_data
                             /\ session_get(userset, update_data["user_id"]) = {}
                     THEN Raise(404, "target_user_not_found")
                     ELSE Outcome(Ok(setattrs(company, update_data)), userset,
                                  Commit(tbls, "company", {company}, {setattrs(company, update_data)}))
                ELSE Outcome(Ok([msg |-> "company_deleted"]), userset,
                             Commit(tbls, "company", {company}, {}))
    IN  Handle(require_roles({"full_admin", "admin", "employer"}, request, t))

(***************************************************************************)
(* routers/comment.py                                                      *)
(***************************************************************************)
router_comment(request, userset, tbls, t) ==
    LET Handle(current) ==
            LET _user == current.body
                requester_role == _user["role"]
                requester_id_str == _user["id"]
                rows == tbls["comment"]
                found == session_get(rows, request.id)
                target_comment == One(found)
                authors == session_get(userset, target_comment.user_id)
                author == One(authors)
                author_id_str == Str(target_comment.user_id)
                update_data == request.body
                Raise(status, detail) == Outcome(HTTPException(status, detail), userset, tbls)
                Add(db) == Outcome(Ok(db), userset, Commit(tbls, "comment", {}, {db}))
            IN  IF current.status # 200
                THEN Outcome(current, userset, tbls)
                ELSE IF request.op = "create_comment"
                THEN IF Get(request.body, "data") = None
                     THEN Raise(400, "comment_content_is_required")
                     ELSE Add([id |-> uuid4(rows), user_id |-> column_of(requester_id_str),
                               blog_id |-> request.body["blog_id"],
                               data |-> request.body["data"]])
                ELSE IF found = {}
                THEN Raise(404, "comment_not_found")
                ELSE IF /\ authors = {}
                        /\ (request.op = "get_comment" => requester_role = "admin")
                THEN Raise(404, "comment_author_not_found")
                ELSE IF /\ requester_role = "admin"
                        /\ author_id_str # requester_id_str
                        /\ author.role \notin {"employer", "job_seeker"}
                THEN Raise(403, "admin_own_or_employer_job_seeker_comments_only")
                ELSE IF /\ requester_role \in {"employer", "job_seeker"}
                        /\ author_id_str # requester_id_str
                THEN Raise(403, "only_your_own_comments")
                ELSE IF requester_role \notin Roles
                THEN Raise(403, "invalid_role")
                ELSE IF request.op = "get_comment"
                THEN Outcome(Ok(target_comment), userset, tbls)
                ELSE IF request.op = "patch_comment"
                THEN IF "user_id" \in DOMAIN update_data /\ requester_role # "full_admin"
                     THEN Raise(403, "only_full_admin_can_change_comment_author")
                     ELSE Outcome(Ok(setattrs(target_comment, update_data)), userset,
                                  Commit(tbls, "comment", {target_comment}, {setattrs(target_comment, update_data)}))
                ELSE Outcome(Ok([msg |-> "comment_deleted"]), userset,
                             Commit(tbls, "comment", {target_comment}, {}))
    IN  Handle(require_roles({"full_admin", "admin", "employer", "job_seeker"},
                             request, t))

(***************************************************************************)
(* routers/setting.py                                                      *)
(***************************************************************************)
router_setting(request, userset, tbls, t) ==
    LET Handle(current) ==
            LET _user == current.body
                requester_role == _user["role"]
                requester_id_str == _user["id"]
                rows == tbls["setting"]
                found == session_get(rows, request.id)
                target_setting == One(found)
                owners == session_get(userset, target_setting.user_id)
                target_user == One(owners)
                update_data == request.body
                Raise(status, detail) == Outcome(HTTPException(status, detail), userset, tbls)
                Add(db) == Outcome(Ok(db), userset, Commit(tbls, "setting", {}, {db}))
            IN  IF current.status # 200
                THEN Outcome(current, userset, tbls)
                ELSE IF request.op = "create_setting"
                THEN LET target_user_id ==
                             IF "user_id" \in DOMAIN request.body
                             THEN request.body["user_id"]
                             ELSE column_of(requester_id_str)
                         db_setting == [id |-> uuid4(rows), user_id |-> target_user_id,
                                        data |-> request.body["data"]]
                     IN  IF requester_role = "full_admin"
                         THEN Add(db_setting)
                         ELSE IF requester_role = "admin"
                         THEN IF Str(target_user_id) = requester_id_str
                              THEN Add(db_setting)
                              ELSE IF session_get(userset, target_user_id) = {}
                              THEN Raise(404, "target_user_not_found")
                              ELSE IF One(session_get(userset, target_user_id)).role
                                          \notin {"employer", "job_seeker"}
                              THEN Raise(403, "admin_only_settings_of_employer_job_seeker_or_self")
                              ELSE Add(db_setting)
                         ELSE IF Str(target_user_id) # requester_id_str
                         THEN Raise(403, "settings_only_for_yourself")
                         ELSE Add(db_setting)
                ELSE IF found = {}
                THEN Raise(404, "setting_not_found")
                ELSE IF owners = {}
                THEN Raise(404, "setting_owner_not_found")
                ELSE IF /\ requester_role = "admin"
                        /\ Str(target_setting.user_id) # requester_id_str
                        /\ target_user.role \notin {"employer", "job_seeker"}
                THEN Raise(403, "admin_own_or_employer_job_seeker_settings_only")
                ELSE IF /\ requester_role \in {"employer", "job_seeker"}
                        /\ Str(target_setting.user_id) # requester_id_str
                THEN Raise(403, "only_your_own_settings")
                ELSE IF requester_role \notin Roles
                THEN Raise(403, "invalid_role")
                ELSE IF request.op = "get_setting"
                THEN Outcome(Ok(target_setting), userset, tbls)
                ELSE IF request.op = "patch_setting"
                THEN IF "user_id" \in DOMAIN update_data /\ requester_role # "full_admin"
                     THEN Raise(403, "only_full_admin_can_change_setting_owner")
                     ELSE Outcome(Ok(setattrs(target_setting, update_data)), userset,
                                  Commit(tbls, "setting", {target_setting}, {setattrs(target_setting, update_data)}))
                ELSE Outcome(Ok([msg |-> "setting_deleted"]), userset,
                             Commit(tbls, "setting", {target_setting}, {}))
    IN  Handle(require_roles({"full_admin", "admin", "employer", "job_seeker"},
                             request, t))

(***************************************************************************)
(* routers/ticket.py                                                       *)
(***************************************************************************)
router_ticket(request, userset, tbls, t) ==
    LET Handle(current) ==
            LET _user == current.body
                requester_role == _user["role"]
                requester_id_str == _user["id"]
                rows == tbls["ticket"]
                found == session_get(rows, request.id)
                ticket == One(found)
                author_id_str == Str(ticket.requester_user_id)
                authors == session_get(userset, ticket.requester_user_id)
                author == One(authors)
                update_data == request.body
                Raise(status, detail) == Outcome(HTTPException(status, detail), userset, tbls)
                Add(db) == Outcome(Ok(db), userset, Commit(tbls, "ticket", {}, {db}))
            IN  IF current.status # 200
                THEN Outcome(current, userset, tbls)
                ELSE IF request.op = "create_ticket"
                THEN IF Get(request.body, "data") = None
                     THEN Raise(400, "subject_is_required")
                     ELSE Add([id |-> uuid4(rows),
                               requester_user_id |-> column_of(requester_id_str),
                               data |-> request.body["data"]])
                ELSE IF found = {}
                THEN Raise(404, "ticket_not_found")
                ELSE IF request.op = "get_ticket"
                THEN IF requester_role = "admin" /\ author_id_str # requester_id_str
                     THEN IF authors = {}
                          THEN Raise(404, "ticket_owner_not_found")
                          ELSE IF author.role \notin {"employer", "job_seeker"}
                          THEN Raise(403, "admin_own_or_employer_job_seeker_tickets_only")
                          ELSE Outcome(Ok(ticket), userset, tbls)
                     ELSE IF /\ requester_role \in {"employer", "job_seeker"}
                             /\ author_id_str # requester_id_str
                     THEN Raise(403, "only_your_own_tickets")
                     ELSE IF requester_role \notin Roles
                     THEN Raise(403, "invalid_role")
                     ELSE Outcome(Ok(ticket), userset, tbls)
                ELSE IF requester_role = "admin" /\ author_id_str # requester_id_str
                THEN Raise(403, "admin_only_tickets_they_authored")
                ELSE IF /\ requester_role \in {"employer", "job_seeker"}
                        /\ author_id_str # requester_id_str
                THEN Raise(403, "only_your_own_tickets")
                ELSE IF requester_role \notin Roles
                THEN Raise(403, "invalid_role")
                ELSE IF request.op = "patch_ticket"
                THEN IF /\ "requester_user_id" \in DOMAIN update_data
                        /\ requester_role # "full_admin"
                     THEN Raise(403, "only_full_admin_can_change_ticket_owner")
                     ELSE Outcome(Ok(setattrs(ticket, update_data)), userset,
                                  Commit(tbls, "ticket", {ticket}, {setattrs(ticket, update_data)}))
                ELSE Outcome(Ok([msg |-> "ticket_deleted"]), userset,
                             Commit(tbls, "ticket", {ticket}, {}))
    IN  Handle(require_roles({"full_admin", "admin", "employer", "job_seeker"},
                             request, t))

(***************************************************************************)
(* routers/activity_log.py                                                 *)
(***************************************************************************)
router_activity_log(request, userset, tbls, t) ==
    LET Handle(current) ==
            LET _user == current.body
                requester_role == _user["role"]
                requester_id == _user["id"]
                rows == tbls["activitylog"]
                found == session_get(rows, request.id)
                activity_log == One(found)
                owners == session_get(userset, activity_log.user_id)
                owner == One(owners)
                update_data == request.body
                new_owners == session_get(userset, update_data["user_id"])
                new_owner == One(new_owners)
                Raise(status, detail) == Outcome(HTTPException(status, detail), userset, tbls)
            IN  IF current.status # 200
                THEN Outcome(current, userset, tbls)
                ELSE IF found = {}
                THEN Raise(404, "activity_log_not_found")
                ELSE IF owners = {}
                THEN Raise(404, "activity_log_owner_not_found")
                ELSE IF /\ requester_role = "admin"
                        /\ owner.role \notin {"job_seeker", "employer"}
                        /\ Str(activity_log.user_id) # requester_id
                THEN Raise(403, "not_allowed_on_this_activity_log")
                ELSE IF requester_role \notin {"full_admin", "admin"}
                THEN Raise(403, "not_allowed")
                ELSE IF request.op = "get_activity_log"
                THEN Outcome(Ok(activity_log), userset, tbls)
                ELSE IF request.op = "patch_activity_log"
                THEN IF /\ requester_role = "admin"
                        /\ "user_id" \in DOMAIN update_data
                        /\ new_owners = {}
                     THEN Raise(404, "target_user_not_found")
                     ELSE IF /\ requester_role = "admin"
                             /\ "user_id" \in DOMAIN update_data
                             /\ new_owner.role \in {"full_admin", "admin"}
                             /\ Str(new_owner.id) # requester_id
                     THEN Raise(403, "admin_cannot_reassign_logs_to_admins")
                     ELSE Outcome(Ok(setattrs(activity_log, update_data)), userset,
                                  Commit(tbls, "activitylog", {activity_log}, {setattrs(activity_log, update_data)}))
                ELSE Outcome(Ok([msg |-> "activity_log_deleted"]), userset,
                             Commit(tbls, "activitylog", {activity_log}, {}))
    IN  Handle(require_roles({"full_admin", "admin"}, request, t))

(***************************************************************************)
(* routers/blog.py.  patch_blog and delete_blog read                       *)
(* target_blog.author_user_id; the Blog model has user_id and no such      *)
(* attribute, so the read raises AttributeError and the request ends in    *)
(* a 500 before any role is looked at.                                     *)
(***************************************************************************)
router_blog(request, userset, tbls, t) ==
    LET Handle(current) ==
            LET _user == current.body
                requester_role == _user["role"]
                rows == tbls["blog"]
                visible == IF requester_role \in {"full_admin", "admin"}
                           THEN rows
                           ELSE {b \in rows : b.status = "published"}
                found == session_get(rows, request.id)
                Raise(status, detail) == Outcome(HTTPException(status, detail), userset, tbls)
            IN  IF current.status # 200
                THEN Outcome(current, userset, tbls)
                ELSE IF request.op = "get_blog"
                THEN IF requester_role \notin Roles
                     THEN Raise(403, "invalid_role")
                     ELSE IF session_get(visible, request.id) = {}
                     THEN Raise(404, "blog_not_found")
                     ELSE Outcome(Ok(One(session_get(visible, request.id))), userset, tbls)
                ELSE IF found = {}
                THEN Raise(404, "blog_not_found")
                ELSE Outcome(InternalServerError, userset, tbls)
    IN  Handle(require_roles(IF request.op = "get_blog" THEN {"full_admin", "admin", "employer", "job_seeker"} ELSE {"full_admin", "admin"},
                             request, t))

(***************************************************************************)
(* routers/job_application.py.  An employer's company is read with         *)
(* getattr(employer_user, "company_id", None); the User model has no such  *)
(* attribute, so the value is always None.                                 *)
(***************************************************************************)
employer_company_id(employer_user) == None

\* the users whose id has the text the token's sub carries
user_of_sub(userset, requester_id) == {u \in userset : Str(u.id) = requester_id}

router_job_application(request, userset, tbls, t) ==
    LET Handle(current) ==
            LET _user == current.body
                requester_role == _user["role"]
                requester_id == _user["id"]
                rows == tbls["jobapplication"]
                found == session_get(rows, request.id)
                app == One(found)
                employer_users == user_of_sub(userset, requester_id)
                postings == session_get(tbls["jobposting"], app.job_posting_id)
                resumes == session_get(tbls["jobseekerresume"], app.job_seeker_resume_id)
                update_data == request.body
                Raise(status, detail) == Outcome(HTTPException(status, detail), userset, tbls)
                Add(db) == Outcome(Ok(db), userset, Commit(tbls, "jobapplication", {}, {db}))
                employer_denied ==
                    IF employer_users = {}
                    THEN Raise(404, "requester_user_not_found")
                    ELSE IF employer_company_id(One(employer_users)) = None
                    THEN Raise(403, "employer_has_no_associated_company")
                    ELSE Raise(403, "not_allowed_on_this_application")
                job_seeker_denied ==
                    resumes = {} \/ Str(One(resumes).user_id) # requester_id
            IN  IF current.status # 200
                THEN Outcome(current, userset, tbls)
                ELSE IF request.op = "create_job_application"
                THEN IF session_get(tbls["jobposting"], request.body["job_posting_id"]) = {}
                     THEN Raise(404, "job_posting_not_found")
                     ELSE IF /\ requester_role = "job_seeker"
                             /\ session_get(tbls["jobseekerresume"],
                                            request.body["job_seeker_resume_id"]) = {}
                     THEN Raise(404, "resume_not_found")
                     ELSE IF /\ requester_role = "job_seeker"
                             /\ Str(One(session_get(tbls["jobseekerresume"],
                                        request.body["job_seeker_resume_id"])).user_id)
                                    # requester_id
                     THEN Raise(403, "cannot_apply_using_another_users_resume")
                     ELSE Add([id |-> uuid4(rows),
                               job_seeker_resume_id |-> request.body["job_seeker_resume_id"],
                               job_posting_id |-> request.body["job_posting_id"],
                               data |-> request.body["data"]])
                ELSE IF found = {}
                THEN Raise(404, "job_application_not_found")
                ELSE IF request.op = "get_job_application"
                THEN IF requester_role \in {"full_admin", "admin"}
                     THEN Outcome(Ok(app), userset, tbls)
                     ELSE IF requester_role = "employer"
                     THEN employer_denied
                     ELSE IF job_seeker_denied
                     THEN Raise(403, "not_allowed_on_this_application")
                     ELSE Outcome(Ok(app), userset, tbls)
                ELSE IF request.op = "patch_job_application"
                THEN IF requester_role = "employer"
                     THEN employer_denied
                     ELSE IF requester_role = "job_seeker" /\ job_seeker_denied
                     THEN Raise(403, "not_allowed_on_this_application")
                     ELSE IF /\ requester_role = "job_seeker"
                             /\ DOMAIN update_data \cap
                                    {"status", "job_posting_id", "job_seeker_resume_id"} # {}
                     THEN Raise(403, "you_cannot_change_this_field")
                     ELSE IF /\ "job_posting_id" \in DOMAIN update_data
                             /\ session_get(tbls["jobposting"],
                                            update_data["job_posting_id"]) = {}
                     THEN Raise(404, "target_job_posting_not_found")
                     ELSE IF /\ "job_seeker_resume_id" \in DOMAIN update_data
                             /\ session_get(tbls["jobseekerresume"],
                                            update_data["job_seeker_resume_id"]) = {}
                     THEN Raise(404, "target_resume_not_found")
                     ELSE Outcome(Ok(setattrs(app, update_data)), userset,
                                  Commit(tbls, "jobapplication", {app}, {setattrs(app, update_data)}))
                ELSE IF requester_role = "job_seeker" /\ job_seeker_denied
                THEN Raise(403, "not_allowed_on_this_application")
                ELSE IF requester_role \notin {"full_admin", "admin", "job_seeker"}
                THEN Raise(403, "employers_cannot_delete_applications")
                ELSE Outcome(Ok([msg |-> "job_application_deleted"]), userset,
                             Commit(tbls, "jobapplication", {app}, {}))
    IN  Handle(require_roles(IF request.op = "create_job_application"
                             THEN {"full_admin", "admin", "job_seeker"}
                             ELSE {"full_admin", "admin", "employer", "job_seeker"},
                             request, t))

(***************************************************************************)
(* routers/job_posting.py; get_job_posting has no dependency on the        *)
(* principal.                                                              *)
(***************************************************************************)
router_job_posting(request, userset, tbls, t) ==
    LET Handle(current) ==
            LET _user == current.body
                requester_role == _user["role"]
                requester_id == _user["id"]
                rows == tbls["jobposting"]
                found == session_get(rows, request.id)
                job_posting == One(found)
                employer_users == user_of_sub(userset, requester_id)
                update_data == request.body
                Raise(status, detail) == Outcome(HTTPException(status, detail), userset, tbls)
                Add(db) == Outcome(Ok(db), userset, Commit(tbls, "jobposting", {}, {db}))
            IN  IF request.op = "get_job_posting"
                THEN IF found = {}
                     THEN Raise(404, "job_posting_not_found")
                     ELSE Outcome(Ok(job_posting), userset, tbls)
                ELSE IF current.status # 200
                THEN Outcome(current, userset, tbls)
                ELSE IF request.op = "create_job_posting"
                THEN IF requester_role = "employer"
                     THEN IF employer_users = {}
                          THEN Raise(404, "requester_user_not_found")
                          ELSE IF employer_company_id(One(employer_users)) = None
                          THEN Raise(403, "employer_user_has_no_associated_company")
                          ELSE Add([id |-> uuid4(rows),
                                    company_id |-> employer_company_id(One(employer_users)),
                                    data |-> request.body["data"]])
                     ELSE IF "company_id" \notin DOMAIN request.body
                     THEN Raise(400, "company_id_is_required")
                     ELSE IF session_get(tbls["company"], request.body["company_id"]) = {}
                     THEN Raise(404, "target_company_not_found")
                     ELSE Add([id |-> uuid4(rows), company_id |-> request.body["company_id"],
                               data |-> request.body["data"]])
                ELSE IF found = {}
                THEN Raise(404, "job_posting_not_found")
                ELSE IF requester_role = "employer" /\ employer_users = {}
                THEN Raise(404, "requester_user_not_found")
                ELSE IF /\ requester_role = "employer"
                        /\ employer_company_id(One(employer_users)) = None
                THEN Raise(403, "employer_user_has_no_associated_company")
                ELSE IF requester_role = "employer"
                THEN Raise(403, "only_job_postings_of_your_own_company")
                ELSE IF request.op = "patch_job_posting"
                THEN IF /\ "company_id" \in DOMAIN update_data
                        /\ session_get(tbls["company"], update_data["company_id"]) = {}
                     THEN Raise(404, "target_company_not_found")
                     ELSE Outcome(Ok(setattrs(job_posting, update_data)), userset,
                                  Commit(tbls, "jobposting", {job_posting}, {setattrs(job_posting, update_data)}))
                ELSE Outcome(Ok([msg |-> "job_posting_deleted"]), userset,
                             Commit(tbls, "jobposting", {job_posting}, {}))
    IN  Handle(require_roles({"full_admin", "admin", "employer"}, request, t))

(***************************************************************************)
(* routers/job_seeker_skill.py, job_seeker_education.py,                   *)
(* job_seeker_work_experience.py, job_seeker_personal_information.py: the  *)
(* four routers of the records that hang on a resume have the same three   *)
(* handlers, each on its own table.                                        *)
(***************************************************************************)
\* schemas/job_seeker_skill.py JobSeekerSkillCreate: the fields of the body
\* that reach create_job_seeker_skill; the schema has no resume id
JobSeekerSkillCreate == {"data"}

router_job_seeker_skill(request, userset, tbls, t) ==
    LET READ_ROLE == {"full_admin", "admin", "job_seeker", "employer"}
        WRITE_ROLE == {"full_admin", "admin", "job_seeker"}
        Handle(current) ==
            LET _user == current.body
                requester_role == _user["role"]
                requester_id == _user["id"]
                rows == tbls[request.table]
                found == session_get(rows, request.id)
                jss == One(found)
                resumes == session_get(tbls["jobseekerresume"], jss.job_seeker_resume_id)
                update_data == request.body
                job_seeker_skill_create ==
                    [f \in DOMAIN request.body \cap JobSeekerSkillCreate |-> request.body[f]]
                Raise(status, detail) == Outcome(HTTPException(status, detail), userset, tbls)
                Add(db) == Outcome(Ok(db), userset, Commit(tbls, request.table, {}, {db}))
            IN  IF current.status # 200
                THEN Outcome(current, userset, tbls)
                ELSE IF request.kind = "create"
                THEN IF "job_seeker_resume_id" \notin DOMAIN job_seeker_skill_create
                     THEN Outcome(InternalServerError, userset, tbls)
                     ELSE IF /\ requester_role = "job_seeker"
                             /\ session_get(tbls["jobseekerresume"],
                                            job_seeker_skill_create["job_seeker_resume_id"]) = {}
                     THEN Raise(404, "resume_not_found")
                     ELSE IF /\ requester_role = "job_seeker"
                             /\ Str(One(session_get(tbls["jobseekerresume"],
                                        job_seeker_skill_create["job_seeker_resume_id"])).user_id)
                                    # requester_id
                     THEN Raise(403, "cannot_add_a_skill_to_another_users_resume")
                     ELSE Add([id |-> uuid4(rows),
                               job_seeker_resume_id |->
                                   job_seeker_skill_create["job_seeker_resume_id"],
                               data |-> job_seeker_skill_create["data"]])
                ELSE IF found = {}
                THEN Raise(404, "record_not_found")
                ELSE IF /\ requester_role = "job_seeker"
                        /\ (resumes = {} \/ Str(One(resumes).user_id) # requester_id)
                THEN Raise(403, "not_allowed_on_this_resource")
                ELSE IF request.kind = "get"
                THEN Outcome(Ok(jss), userset, tbls)
                ELSE IF request.kind = "patch"
                THEN IF /\ requester_role = "job_seeker"
                        /\ "job_seeker_resume_id" \in DOMAIN update_data
                     THEN Raise(403, "cannot_change_the_resume_id")
                     ELSE IF /\ "job_seeker_resume_id" \in DOMAIN update_data
                             /\ session_get(tbls["jobseekerresume"],
                                            update_data["job_seeker_resume_id"]) = {}
                     THEN Raise(404, "target_resume_not_found")
                     ELSE Outcome(Ok(setattrs(jss, update_data)), userset,
                                  Commit(tbls, request.table, {jss}, {setattrs(jss, update_data)}))
                ELSE Outcome(Ok([msg |-> "record_deleted"]), userset,
                             Commit(tbls, request.table, {jss}, {}))
    IN  Handle(require_roles(IF request.kind = "get" THEN READ_ROLE ELSE WRITE_ROLE,
                             request, t))

router_job_seeker_education(request, userset, tbls, t) ==
    router_job_seeker_skill(request, userset, tbls, t)

router_job_seeker_work_experience(request, userset, tbls, t) ==
    router_job_seeker_skill(request, userset, tbls, t)

router_job_seeker_personal_information(request, userset, tbls, t) ==
    router_job_seeker_skill(request, userset, tbls, t)

(***************************************************************************)
(* The record store of the resource routers and the requests made on it.   *)
(* Six users: a job seeker, two admins, a full admin and two employers.    *)
(* Every table starts with one row, id 1, that belongs to one and the same *)
(* user, directly or through resume 1, company 1 and posting 1; resume 2   *)
(* and company 2 belong to the second employer.  A row's data field stands *)
(* for its columns that are neither keys nor owners.                       *)
(***************************************************************************)
MaxWrites == 1

RecordUsers ==
    InitUsers \cup
    { [id |-> UUID(3), username |-> "carol", full_name |-> "carol",
       password |-> get_password_hash("carol-pw"),
       role |-> "admin", AccountStatus |-> "active"],
      [id |-> UUID(4), username |-> "root", full_name |-> "root",
       password |-> get_password_hash("root-pw"),
       role |-> "full_admin", AccountStatus |-> "active"],
      [id |-> UUID(5), username |-> "erin", full_name |-> "erin",
       password |-> get_password_hash("erin-pw"),
       role |-> "employer", AccountStatus |-> "active"],
      [id |-> UUID(6), username |-> "eve", full_name |-> "eve",
       password |-> get_password_hash("eve-pw"),
       role |-> "employer", AccountStatus |-> "active"] }

\* the clients, one of each role; a behaviour follows the session of one
ClientLogins ==
    { [username |-> "alice", password |-> "alice-pw"],
      [username |-> "bob", password |-> "bob-pw"],
      [username |-> "root", password |-> "root-pw"],
      [username |-> "erin", password |-> "erin-pw"] }

\* the access tokens the clients got from login at the start, without a key
ClientTokens ==
    { login(LoginRequest(c.username, c.password, NoHeader),
            RecordUsers, StartTime).body.access_token : c \in ClientLogins }

OwnerField(table) ==
    IF table = "ticket" THEN "requester_user_id"
    ELSE IF table \in {"jobseekerskill", "jobseekereducation",
                       "jobseekerworkexperience", "jobseekerpersonalinformation",
                       "jobapplication"}
    THEN "job_seeker_resume_id"
    ELSE IF table = "jobposting" THEN "company_id"
    ELSE "user_id"

InitTables(owner) ==
    [table \in TableNames |->
        IF table \in {"jobseekerresume", "company"}
        THEN { [id |-> UUID(1), user_id |-> owner, data |-> "original"],
               [id |-> UUID(2), user_id |-> UUID(6), data |-> "original"] }
        ELSE IF table = "jobapplication"
        THEN { [id |-> UUID(1), job_seeker_resume_id |-> UUID(1),
                job_posting_id |-> UUID(1), data |-> "original"] }
        ELSE IF table = "savedjob"
        THEN { [id |-> UUID(1), user_id |-> owner,
                job_posting_id |-> UUID(1), data |-> "original"] }
        ELSE IF table = "blog"
        THEN { [id |-> UUID(1), user_id |-> owner, status |-> "published",
                data |-> "original"] }
        ELSE IF table = "comment"
        THEN { [id |-> UUID(1), user_id |-> owner, blog_id |-> UUID(1),
                data |-> "original"] }
        ELSE IF OwnerField(table) = "user_id"
        THEN { [id |-> UUID(1), user_id |-> owner, data |-> "original"] }
        ELSE IF OwnerField(table) = "requester_user_id"
        THEN { [id |-> UUID(1), requester_user_id |-> owner, data |-> "original"] }
        ELSE IF OwnerField(table) = "company_id"
        THEN { [id |-> UUID(1), company_id |-> UUID(1), data |-> "original"] }
        ELSE { [id |-> UUID(1), job_seeker_resume_id |-> UUID(1),
                data |-> "original"] }]

InitRecords ==
    /\ now = StartTime
    /\ users = RecordUsers
    /\ \E owner \in {u.id : u \in RecordUsers} : tables = InitTables(owner)
    /\ writes = 0
    /\ \E token \in ClientTokens : issued = {token}
    /\ mints = 0
    /\ ticks = 0
    /\ req = Idle
    /\ resp = NoResponse

\* the handler a request names, by table and kind of request
Handlers ==
    [table \in TableNames \cup {"user"} |->
        IF table = "user"
        THEN [create |-> "create_user", get |-> "get_user",
              patch |-> "patch_user", delete |-> "delete_user"]
        ELSE IF table = "notification"
        THEN [get |-> "get_notification", patch |-> "patch_notification",
              delete |-> "delete_notification"]
        ELSE IF table = "jobseekerresume"
        THEN [create |-> "create_job_seeker_resume", get |-> "get_job_seeker_resume",
              patch |-> "patch_job_seeker_resume",
              delete |-> "delete_job_seeker_resume"]
        ELSE IF table = "jobseekerskill"
        THEN [create |-> "create_job_seeker_skill", get |-> "get_job_seeker_skill",
              patch |-> "patch_job_seeker_skill",
              delete |-> "delete_job_seeker_skill"]
        ELSE IF table = "jobseekereducation"
        THEN [get |-> "get_job_seeker_education",
              patch |-> "patch_job_seeker_education",
              delete |-> "delete_job_seeker_education"]
        ELSE IF table = "jobseekerworkexperience"
        THEN [get |-> "get_job_seeker_work_experience",
              patch |-> "patch_job_seeker_work_experience",
              delete |-> "delete_job_seeker_work_experience"]
        ELSE IF table = "jobseekerpersonalinformation"
        THEN [get |-> "get_job_seeker_personal_information",
              patch |-> "patch_job_seeker_personal_information",
              delete |-> "delete_job_seeker_personal_information"]
        ELSE IF table = "company"
        THEN [get |-> "get_employer_company", patch |-> "patch_employer_company",
              delete |-> "delete_employer_company"]
        ELSE IF table = "image"
        THEN [create |-> "create_image", get |-> "get_images_by_user",
              patch |-> "patch_image",
              delete |-> "delete_image"]
        ELSE IF table = "jobposting"
        THEN [create |-> "create_job_posting", get |-> "get_job_posting",
              patch |-> "patch_job_posting",
              delete |-> "delete_job_posting"]
        ELSE IF table = "jobapplication"
        THEN [create |-> "create_job_application", get |-> "get_job_application",
              patch |-> "patch_job_application",
              delete |-> "delete_job_application"]
        ELSE IF table = "savedjob"
        THEN [create |-> "create_saved_job", get |-> "get_saved_job",
              patch |-> "patch_saved_job",
              delete |-> "delete_saved_job"]
        ELSE IF table = "activitylog"
        THEN [get |-> "get_activity_log", patch |-> "patch_activity_log",
              delete |-> "delete_activity_log"]
        ELSE IF table = "blog"
        THEN [get |-> "get_blog", patch |-> "patch_blog", delete |-> "delete_blog"]
        ELSE IF table = "comment"
        THEN [create |-> "create_comment", get |-> "get_comment",
              patch |-> "patch_comment",
              delete |-> "delete_comment"]
        ELSE IF table = "ticket"
        THEN [create |-> "create_ticket", get |-> "get_ticket",
              patch |-> "patch_ticket",
              delete |-> "delete_ticket"]
        ELSE [create |-> "create_setting", get |-> "get_setting",
              patch |-> "patch_setting",
              delete |-> "delete_setting"]]

RecordRequest(kind, table, token, id, body) ==
    [op |-> Handlers[table][kind], kind |-> kind, table |-> table,
     Authorization |-> Bearer(token), DPoP |-> NoHeader,
     id |-> id, body |-> body]

\* config.py: the router a request is routed to.  The routers of blogs,
\* comments, tickets and settings are defined like the others but are not
\* among the ones config.py includes; they are routed here all the same.
Route(request, userset, tbls, t) ==
    IF request.op = "sign_up" THEN sign_up(request, userset, tbls)
    ELSE
    CASE request.table = "user" -> router_user(request, userset, tbls, t)
      [] request.table = "notification" ->
            router_notification(request, userset, tbls, t)
      [] request.table = "jobseekerresume" ->
            router_job_seeker_resume(request, userset, tbls, t)
      [] request.table = "jobseekerskill" ->
            router_job_seeker_skill(request, userset, tbls, t)
      [] request.table = "jobseekereducation" ->
            router_job_seeker_education(request, userset, tbls, t)
      [] request.table = "jobseekerworkexperience" ->
            router_job_seeker_work_experience(request, userset, tbls, t)
      [] request.table = "jobseekerpersonalinformation" ->
            router_job_seeker_personal_information(request, userset, tbls, t)
      [] request.table = "company" ->
            router_employer_company(request, userset, tbls, t)
      [] request.table = "image" -> router_image(request, userset, tbls, t)
      [] request.table = "jobposting" ->
            router_job_posting(request, userset, tbls, t)
      [] request.table = "jobapplication" ->
            router_job_application(request, userset, tbls, t)
      [] request.table = "savedjob" -> router_saved_job(request, userset, tbls, t)
      [] request.table = "activitylog" ->
            router_activity_log(request, userset, tbls, t)
      [] request.table = "blog" -> router_blog(request, userset, tbls, t)
      [] request.table = "comment" -> router_comment(request, userset, tbls, t)
      [] request.table = "ticket" -> router_ticket(request, userset, tbls, t)
      [] request.table = "setting" -> router_setting(request, userset, tbls, t)

\* the ids a request names: the users, or rows 1 and 2 where there are two
RecordIds(kind, table) ==
    IF table = "user" \/ (table = "image" /\ kind = "get")
    THEN {u.id : u \in RecordUsers}
    ELSE IF table \in {"jobseekerresume", "company"}
    THEN {UUID(1), UUID(2)}
    ELSE {UUID(1)}

\* PATCH bodies: another value for the data, or another owner (the first
\* employer; for an activity log the second admin as well)
Bodies(table) ==
    IF table = "user"
    THEN { [full_name |-> "edited"], [role |-> "full_admin"],
           [full_name |-> "edited", role |-> "full_admin"],
           [AccountStatus |-> "suspended"] }
    ELSE IF table = "blog"
    THEN { [data |-> "edited"], [author_user_id |-> UUID(5)] }
    ELSE IF table = "activitylog"
    THEN { [data |-> "edited"], [user_id |-> UUID(3)], [user_id |-> UUID(5)] }
    ELSE IF OwnerField(table) \in {"user_id", "requester_user_id"}
    THEN { [data |-> "edited"], [f \in {OwnerField(table)} |-> UUID(5)] }
    ELSE { [data |-> "edited"], [f \in {OwnerField(table)} |-> UUID(2)] }

\* a request is answered: the handler's commit and its response
Serve(request) ==
    LET Commits(out) ==
            LET changed == out.users # users \/ out.tables # tables
            IN  /\ changed => writes < MaxWrites
                /\ req' = request
                /\ resp' = out.resp
                /\ users' = out.users
                /\ tables' = out.tables
                /\ writes' = IF changed THEN writes + 1 ELSE writes
                /\ UNCHANGED <<now, issued, mints, ticks>>
    IN  Commits(Route(request, users, tables, now))

GetRecord ==
    /\ req = Idle
    /\ \E table \in TableNames \cup {"user"}, token \in issued :
       \E id \in RecordIds("get", table) :
           Serve(RecordRequest("get", table, token, id, <<>>))

PatchRecord ==
    /\ req = Idle
    /\ \E table \in TableNames \cup {"user"}, token \in issued :
       \E id \in RecordIds("patch", table), body \in Bodies(table) :
           Serve(RecordRequest("patch", table, token, id, body))

DeleteRecord ==
    /\ req = Idle
    /\ \E table \in TableNames \cup {"user"}, token \in issued :
       \E id \in RecordIds("delete", table) :
           Serve(RecordRequest("delete", table, token, id, <<>>))

\* POST bodies as the Create schemas let them through: every field the
\* schema requires, the owner the body names being the requester of the job
\* seeker's session, another user, or one of the two resumes or companies
CreateBodies ==
    [table \in {"user", "jobseekerresume", "jobseekerskill", "image", "jobposting",
                "jobapplication", "savedjob", "comment", "ticket", "setting"} |->
        IF table = "user"
        THEN { [username |-> "mallory", full_name |-> "mallory",
                password |-> "mallory-pw", role |-> role, AccountStatus |-> "active"] :
               role \in {"full_admin", "job_seeker"} }
        ELSE IF table = "jobapplication"
        THEN { [job_seeker_resume_id |-> id, job_posting_id |-> UUID(1), data |-> "new"] :
               id \in {UUID(1), UUID(2)} }
        ELSE IF table = "jobseekerskill"
        THEN { [job_seeker_resume_id |-> id, data |-> "new"] : id \in {UUID(1), UUID(2)} }
        ELSE IF table = "jobposting"
        THEN { [company_id |-> id, data |-> "new"] : id \in {UUID(1), UUID(2)} }
        ELSE IF table = "savedjob"
        THEN { [user_id |-> id, job_posting_id |-> UUID(1), data |-> "new"] :
               id \in {UUID(1), UUID(5)} }
        ELSE IF table = "comment"
        THEN { [user_id |-> id, blog_id |-> UUID(1), data |-> "new"] :
               id \in {UUID(1), UUID(5)} }
        ELSE IF table = "ticket"
        THEN { [requester_user_id |-> id, data |-> "new"] : id \in {UUID(1), UUID(5)} }
        ELSE IF table = "image"
        THEN { [data |-> "new"] } \cup
             { [user_id |-> id, data |-> "new"] : id \in {UUID(1), UUID(5)} }
        ELSE { [user_id |-> id, data |-> "new"] : id \in {UUID(1), UUID(5)} }]

CreateRecord ==
    /\ req = Idle
    /\ \E table \in DOMAIN CreateBodies, token \in issued :
       \E body \in CreateBodies[table] :
           Serve(RecordRequest("create", table, token, UUID(0), body))

\* POST /sign-up/ carries no token
SignUp ==
    /\ req = Idle
    /\ \E body \in CreateBodies["user"] :
           Serve([op |-> "sign_up", kind |-> "create",
                  Authorization |-> NoHeader, DPoP |-> NoHeader, body |-> body])

NextRecords ==
    GetRecord \/ PatchRecord \/ DeleteRecord \/ CreateRecord \/ SignUp \/ SendResponse

SpecRecords == InitRecords /\ [][NextRecords]_vars

(***************************************************************************)
(* Vocabulary of the properties of the resource routers.  A step that      *)
(* answers a request goes from req = Idle to the request; the users and    *)
(* tables of the state before it are the ones the handler read.            *)
(***************************************************************************)
\* the principal the role dependency hands to the handler
Requester(request) == get_current_user(request, now).body

RequesterRole(request) == Requester(request)["role"]

\* the row a request names, looked up in the given tables
Target(request, userset, tbls) ==
    IF request.table = "user"
    THEN session_get(userset, request.id)
    ELSE session_get(tbls[request.table], request.id)

\* the user a row belongs to: itself for a user, its owner column, or the
\* owner of the resume or of the company it hangs on
OwnerIds(table, row, tbls) ==
    IF table = "user" THEN {row.id}
    ELSE IF OwnerField(table) = "user_id" THEN {row.user_id}
    ELSE IF OwnerField(table) = "requester_user_id" THEN {row.requester_user_id}
    ELSE IF OwnerField(table) = "job_seeker_resume_id"
    THEN {r.user_id : r \in session_get(tbls["jobseekerresume"],
                                        row.job_seeker_resume_id)}
    ELSE {c.user_id : c \in session_get(tbls["company"], row.company_id)}

\* the users that own the row a request names
Owners(request, userset, tbls) ==
    {u \in userset : \E row \in Target(request, userset, tbls) :
                        u.id \in OwnerIds(request.table, row, tbls)}

Writing(request) ==
    "table" \in DOMAIN request /\ request.kind \in {"patch", "delete"}

Reading(request) ==
    /\ "table" \in DOMAIN request
    /\ request.kind = "get"
    /\ request.op # "get_images_by_user"

Own(request, u) == Str(u.id) = Requester(request)["id"]

\* C14: whenever an admin's PATCH or DELETE names a record whose owning user
\* is another admin or a full_admin, the answer is 403 and no table changes
C14_AdminPeerProtection ==
    [][ (/\ req = Idle
         /\ Writing(req')
         /\ RequesterRole(req') = "admin"
         /\ \E u \in Owners(req', users, tables) :
                u.role \in {"admin", "full_admin"} /\ ~Own(req', u))
        => (resp'.status = 403 /\ tables' = tables /\ users' = users) ]_vars

\* the request changed nothing
NothingChanged == users' = users /\ tables' = tables

\* a PATCH or DELETE of a user did what it says: the row is gone, or the row
\* the response shows has taken its place
UserWritten(target) ==
    /\ resp'.status = 200
    /\ IF req'.kind = "delete"
       THEN users' = users \ {target}
       ELSE users' = (users \ {target}) \cup {resp'.body}

\* C15: patch_user and delete_user by an admin succeed on the admin's own
\* record and on an employer or job_seeker, and are answered 403 with the
\* user table unchanged on another admin and on a full_admin; by an employer
\* or job_seeker they succeed on the own record only, 403 otherwise
C15_UserWrites ==
    [][ (/\ req = Idle
         /\ Writing(req')
         /\ req'.table = "user"
         /\ RequesterRole(req') \in {"admin", "employer", "job_seeker"})
        => \A target \in Target(req', users, tables) :
              LET allowed ==
                    \/ Own(req', target)
                    \/ /\ RequesterRole(req') = "admin"
                       /\ target.role \in {"employer", "job_seeker"}
              IN  IF allowed
                  THEN UserWritten(target)
                  ELSE resp'.status = 403 /\ NothingChanged ]_vars

\* an admin was refused the deletion of carol, another admin, who is still
\* a user
C15_Witness ==
    /\ "table" \in DOMAIN req
    /\ req.op = "delete_user"
    /\ RequesterRole(req) = "admin"
    /\ req.id = UUID(3)
    /\ resp.status = 403
    /\ \E u \in users : u.id = UUID(3) /\ u.role = "admin"

\* C16: an admin's DELETE, or PATCH that leaves the ownership column alone,
\* of a record of any resource whose owning user is an employer or a
\* job_seeker is never answered 403, tickets included
C16_AdminOnLowerRoles ==
    [][ (/\ req = Idle
         /\ Writing(req')
         /\ RequesterRole(req') = "admin"
         /\ OwnerField(req'.table) \notin DOMAIN req'.body
         /\ Owners(req', users, tables) # {}
         /\ \A u \in Owners(req', users, tables) :
                u.role \in {"employer", "job_seeker"})
        => resp'.status # 403 ]_vars

\* a PATCH or DELETE of a company did what it says
CompanyWritten(company) ==
    /\ resp'.status = 200
    /\ users' = users
    /\ IF req'.kind = "delete"
       THEN tables' = Commit(tables, "company", {company}, {})
       ELSE tables' = Commit(tables, "company", {company}, {resp'.body})

\* the user that owns the company is an employer
EmployerOwned(company) ==
    \E u \in users : u.id = company.user_id /\ u.role = "employer"

Refused(status) == resp'.status = status /\ NothingChanged

\* a PATCH whose body names the owner column
NamesOwner(request) ==
    request.kind = "patch" /\ OwnerField(request.table) \in DOMAIN request.body

C18_FullAdminNeverForbidden ==
    [][ (/\ req = Idle
         /\ "table" \in DOMAIN req'
         /\ RequesterRole(req') = "full_admin")
        => resp'.status # 403 ]_vars

\* the full_admin has changed a notification that belongs to an admin
C18_Witness ==
    /\ "table" \in DOMAIN req
    /\ req.op = "patch_notification"
    /\ RequesterRole(req) = "full_admin"
    /\ resp.status = 200
    /\ \E row \in tables["notification"], u \in users :
          /\ row.data = "edited"
          /\ row.user_id = u.id
          /\ u.role = "admin"

OwnedByRequester(request, row, tbls) ==
    \E id \in OwnerIds(request.table, row, tbls) :
        Str(id) = Requester(request)["id"]

\* C20: on every resource but companies and job postings, a GET by id of an
\* employer or job_seeker returns the record only if the requester owns it,
\* directly or through a resume or company; in particular an employer is not
\* given another user's resume or the skills attached to it
C20_ReadOwnRecordsOnly ==
    [][ (/\ req = Idle
         /\ Reading(req')
         /\ req'.table \notin {"company", "jobposting", "user"}
         /\ RequesterRole(req') \in {"employer", "job_seeker"})
        => \A row \in Target(req', users, tables) :
              ~OwnedByRequester(req', row, tables) => resp'.status # 200 ]_vars

\* the resources whose handlers decide access by the owning user or by the
\* parent resume of the record
OwnerLookupTables ==
    {"notification", "setting", "comment", "activitylog", "ticket",
     "jobseekerskill", "jobapplication"}

ClientProof(method, path) == Header(GoodProof("k1", method, path, now))

\* get_current_user accepts the token now
AcceptedNow(token) ==
    get_current_user(ProtectedRequest(Bearer(token),
                                      ClientProof(GET, ProtectedPath), {}),
                     now).status = 200

\* refresh_token accepts the token now
RefreshedNow(token) ==
    refresh_token(RefreshRequest(Bearer(token), NoHeader,
                                 ClientProof(POST, RefreshPath), NoHeader),
                  now).status = 200

C23_FullAdminCreatedByFullAdmin ==
    [][ (req = Idle /\ req'.op = "create_user")
        => /\ (RequesterRole(req') = "admin" /\ req'.body["role"] = "full_admin")
                 => (resp'.status = 403 /\ users' = users)
           /\ users' # users => RequesterRole(req') \in {"admin", "full_admin"}
           /\ (\E u \in users' \ users : u.role = "full_admin")
                 => RequesterRole(req') = "full_admin" ]_vars

\* the claim set names no subject, under sub or under id, or no role
LacksClaims(payload) ==
    \/ {"sub", "id"} \cap DOMAIN payload = {}
    \/ "role" \notin DOMAIN payload

\* C24: a validly signed, unexpired token that lacks a subject id or a role
\* is answered by get_current_user 403 "incomplete claims" when it is an
\* access token, bound to a key or not and whatever proof comes with it, and
\* 401 when it is of another type
C24_IncompleteClaims ==
    (/\ ProtectedWithToken
     /\ ValidlySigned(ProtectedToken)
     /\ Unexpired(ProtectedToken)
     /\ LacksClaims(ProtectedToken.payload)) =>
        IF Get(ProtectedToken.payload, "token_type") = "access"
        THEN resp.status = 403 /\ resp.detail = "token_claims_incomplete" /\ ~Produced
        ELSE resp.status = 401 /\ ~Produced

\* an access token bound to a key and without a role is presented with no
\* proof at all and is answered 403
C24_Witness ==
    /\ ProtectedWithToken
    /\ ValidlySigned(ProtectedToken)
    /\ Unexpired(ProtectedToken)
    /\ "role" \notin DOMAIN ProtectedToken.payload
    /\ "cnf" \in DOMAIN ProtectedToken.payload
    /\ ProtectedToken.payload["token_type"] = "access"
    /\ ~req.DPoP.present
    /\ resp.status = 403

\* C25: a job_seeker's GET, PATCH or DELETE of a saved job by id is not
\* answered 403 when the saved job's user_id is the job_seeker's own id, and
\* is answered 403 when it is another user's
C25_SavedJobOwner ==
    [][ (/\ req = Idle
         /\ "table" \in DOMAIN req'
         /\ req'.table = "savedjob"
         /\ req'.kind \in {"get", "patch", "delete"}
         /\ RequesterRole(req') = "job_seeker")
        => \A row \in Target(req', users, tables) :
              IF OwnedByRequester(req', row, tables)
              THEN resp'.status # 403
              ELSE resp'.status = 403 ]_vars

\* the users that own the company a job-posting request is about: the
\* company the body names for a create, the posting's company otherwise
PostingCompanyOwners(request, tbls) ==
    LET ids == IF request.kind = "create" THEN {request.body["company_id"]}
               ELSE {row.company_id : row \in Target(request, users, tbls)}
    IN  {c.user_id : c \in {c \in tbls["company"] : c.id \in ids}}

\* C26: an employer's create, PATCH or DELETE of a job posting succeeds when
\* the posting's company is one the employer owns and is answered 403 when
\* it is another user's company, and no PATCH by an employer changes the
\* company of a posting
C26_EmployerPostings ==
    [][ (/\ req = Idle
         /\ "table" \in DOMAIN req'
         /\ req'.table = "jobposting"
         /\ req'.kind \in {"create", "patch", "delete"}
         /\ RequesterRole(req') = "employer")
        => /\ \A owner \in PostingCompanyOwners(req', tables) :
                 IF Str(owner) # Requester(req')["id"]
                 THEN resp'.status = 403
                 ELSE "company_id" \notin DOMAIN req'.body \/ req'.kind = "create"
                         => resp'.status = 200
           /\ \A row \in tables["jobposting"], after \in tables'["jobposting"] :
                 row.id = after.id => row.company_id = after.company_id ]_vars

\* C27: a patch_user by a principal that is not full_admin leaves the role of
\* every user as it was; when the body names a role among other fields and
\* the requester patches their own record, the answer is 200 and the other
\* fields are set
C27_RoleImmutable ==
    [][ (/\ req = Idle
         /\ req'.op = "patch_user"
         /\ RequesterRole(req') # "full_admin")
        => /\ \A u \in users, v \in users' : u.id = v.id => v.role = u.role
           /\ \A u \in Target(req', users, tables) :
                 (Own(req', u) /\ "role" \in DOMAIN req'.body)
                    => /\ resp'.status = 200
                       /\ resp'.body \in users'
                       /\ resp'.body.id = u.id
                       /\ \A f \in DOMAIN req'.body \ {"role"} :
                             resp'.body[f] = req'.body[f] ]_vars

\* an admin has sent PATCH /users/{id} with a new full_name and the role
\* full_admin, and is answered 200 with the new name and the old role
C27_Witness ==
    /\ req.op = "patch_user"
    /\ RequesterRole(req) = "admin"
    /\ DOMAIN req.body = {"full_name", "role"}
    /\ req.body["role"] = "full_admin"
    /\ resp.status = 200
    /\ resp.body.full_name = "edited"
    /\ resp.body.role # "full_admin"
    /\ resp.body \in users

\* C28: a patch_user by a principal that is not full_admin leaves the
\* account status of every user as it was, whatever the body holds
C28_AccountStatusImmutable ==
    [][ (/\ req = Idle
         /\ req'.op = "patch_user"
         /\ RequesterRole(req') # "full_admin")
        => \A u \in users, v \in users' :
              u.id = v.id => v.AccountStatus = u.AccountStatus ]_vars

(***************************************************************************)
(* Sessions that outlive the account: alice, with a key, and root have     *)
(* logged in at the start; tokens are refreshed and presented while users  *)
(* are patched and deleted.                                                *)
(***************************************************************************)
InitAccounts ==
    /\ now = StartTime
    /\ users = RecordUsers
    /\ tables = EmptyTables
    /\ writes = 0
    /\ issued =
          MintedBy(login(LoginRequest("alice", "alice-pw",
                                      Header([kind |-> "json", val |-> "k1"])),
                         RecordUsers, StartTime))
          \cup {login(LoginRequest("root", "root-pw", NoHeader),
                      RecordUsers, StartTime).body.access_token}
    /\ mints = 0
    /\ ticks = 0
    /\ req = Idle
    /\ resp = NoResponse

\* PATCH and DELETE /users/{user_id} on the record of the job seeker
PatchUser ==
    /\ req = Idle
    /\ \E token \in issued, body \in Bodies("user") :
           Serve(RecordRequest("patch", "user", token, UUID(1), body))

DeleteUser ==
    /\ req = Idle
    /\ \E token \in issued :
           Serve(RecordRequest("delete", "user", token, UUID(1), <<>>))

NextAccounts ==
    Tick \/ SendResponse \/ RefreshToken \/ GetMe \/ PatchUser \/ DeleteUser

SpecAccounts == InitAccounts /\ [][NextAccounts]_vars

\* the token a refresh request presents, in whichever header it came
RefreshPresented ==
    IF req.AuthorizationRefresh.present
    THEN req.AuthorizationRefresh.value.token
    ELSE req.Authorization.value.token

\* the principal get_current_user makes of the token now, with the client's
\* proof, is the token's own sub and role
AcceptedAsItself(token) ==
    LET current == get_current_user(ProtectedRequest(Bearer(token),
                                        ClientProof(GET, ProtectedPath), {}), now)
    IN  /\ current.status = 200
        /\ current.body["id"] = token.payload["sub"]
        /\ current.body["role"] = token.payload["role"]

\* C29: the two tokens of a refresh carry the sub, the role and the cnf of
\* the token presented; and whatever has become of the user record, every
\* token issued is refreshed until its exp and every access token issued is
\* accepted until its exp with the id and role it carries
C29_RefreshKeepsPrincipal ==
    /\ (req.op = "refresh" /\ resp.status = 200) =>
          \A token \in MintedBy(resp) :
             /\ token.payload["sub"] = RefreshPresented.payload["sub"]
             /\ token.payload["role"] = RefreshPresented.payload["role"]
             /\ Get(token.payload, "cnf") = Get(RefreshPresented.payload, "cnf")
    /\ \A token \in issued :
          now < token.payload["exp"] =>
             /\ RefreshedNow(token)
             /\ token.payload["token_type"] = "access" => AcceptedAsItself(token)

\* the user of an access token that a refresh of a refreshed token minted is
\* gone, the access token of the login has expired, and a protected endpoint
\* has just accepted the token as the job_seeker with id 1
C29_Witness ==
    /\ ProtectedWithToken
    /\ resp.status = 200
    /\ resp.body["id"] = "1"
    /\ resp.body["role"] = "job_seeker"
    /\ MintedByRefresh(ProtectedToken)
    /\ mints >= 2
    /\ now >= StartTime + ACCESS_TOKEN_EXPIRE_MINUTES * 60
    /\ \A u \in users : u.id # UUID(1)

\* the resources a job_seeker creates, patches and deletes records of
JobSeekerTables ==
    {"jobseekerresume", "jobseekerskill", "jobapplication", "savedjob",
     "image", "ticket", "comment", "setting"}

\* the row of the table belongs to the requester, directly or by its resume
\* or company
BelongsToRequester(request, table, row, tbls) ==
    \E id \in OwnerIds(table, row, tbls) : Str(id) = Requester(request)["id"]

\* C30: a create, PATCH or DELETE of a job_seeker on resumes, skills, job
\* applications, saved jobs, images, tickets, comments and settings leaves
\* the users and every row that belongs to another user, or to nobody, as
\* they were; a row it creates belongs to the job_seeker, and no row created
\* in the job_seeker's session belongs to anyone else
C30_JobSeekerIsolation ==
    [][ (/\ req = Idle
         /\ "table" \in DOMAIN req'
         /\ req'.table \in JobSeekerTables
         /\ req'.kind \in {"create", "patch", "delete"}
         /\ RequesterRole(req') = "job_seeker")
        => /\ users' = users
           /\ \A table \in TableNames : \A row \in tables[table] :
                 ~BelongsToRequester(req', table, row, tables)
                    => row \in tables'[table]
           /\ \A row \in tables'[req'.table] \ tables[req'.table] :
                 req'.kind = "create"
                    => BelongsToRequester(req', req'.table, row, tables')
           /\ \A table \in JobSeekerTables : \A row \in tables'[table] :
                 row.id.uuid >= FirstFreeId
                    => \A id \in OwnerIds(table, row, tables') :
                          Str(id) = Requester(req')["id"] ]_vars

\* a job_seeker has sent POST /saved_jobs/ with another user's id in the
\* body and is answered 200 with a saved job of her own
C30_Witness ==
    /\ req.op = "create_saved_job"
    /\ RequesterRole(req) = "job_seeker"
    /\ req.body["user_id"] = UUID(5)
    /\ resp.status = 200
    /\ resp.body.user_id = UUID(1)
    /\ resp.body \in tables["savedjob"]

====
